---- MODULE Spec2Model ----
(***************************************************************************)
(* AeroX: the length-prefixed frame codec (aerox_network/protocol) and the *)
(* reactor worker that reads frames from a connection, routes them and     *)
(* writes the handlers' responses (aerox_network/reactor).                 *)
(*                                                                         *)
(* Byte buffers (Bytes / BytesMut) are kept run-length encoded: a buffer   *)
(* is a sequence of runs <<byte, count>> with count > 0 and no two         *)
(* neighbouring runs of the same byte, so that equal buffers are equal     *)
(* values and a body of MAX_BODY_SIZE bytes is one run.                    *)
(***************************************************************************)
EXTENDS Integers, Sequences, FiniteSets, TLC

(***************************************************************************)
(* Bounds of the model.                                                    *)
(***************************************************************************)
\* longest body enumerated byte by byte
MaxBodyLen == 2
\* frames (or raw headers) put on the codec stream
MaxFrames == 2
\* largest number of bytes one partial read moves into the receive buffer
MaxChunk == 4
\* partial reads are enumerated while the receive buffer is at most this long
\* (beyond it a read brings the rest of the stream, or all but its last byte)
MaxPartial == 12
\* decode calls made on the codec stream
MaxCalls == 4
\* connections the acceptor takes
NumConns == 2
\* items (frames, oversize headers) the clients write, over all connections
MaxSends == 3
\* middlewares pushed on a stack
MaxStack == 2
\* suspension points of a handler
MaxSuspend == 2
\* ConnectionManager handles: the original and its clones
MaxManagers == 2
\* ids drawn from the generators, over all of them
MaxIds == 3
\* threads that call create_connection
NumThreads == 2
\* ticks of the clock that Instant::now reads
MaxTime == 3
\* calls made on a pool
MaxPoolCalls == 4
\* largest worker count a balancer is created with
MaxWorkers == 4
\* next_worker calls made on a balancer
MaxPicks == 8
MaxAccepts == 4
MaxSeqCalls == 3
MaxPlugins == 3
MaxDeps == 2

(***************************************************************************)
(* Program constants.                                                      *)
(***************************************************************************)
HEADER_SIZE == 2 + 4
LENGTH_SIZE == 4
MAX_BODY_SIZE == 16 * 1024 * 1024
U16 == 65536
\* the largest integer the checker computes with, 2^31 - 1: the u32 fields of
\* the model (lengths, sequence ids) stay at or below it
I32Max == 32767 * U16 + (U16 - 1)

(***************************************************************************)
(* Byte buffers.                                                           *)
(***************************************************************************)
Min(a, b) == IF a <= b THEN a ELSE b

\* The operators on buffers bind their arguments to values first (a variable
\* ranging over a one-element set), so that an argument is evaluated once
\* however often the body uses it.
\* n copies of byte b
Repeat(b, n) == IF n = 0 THEN <<>> ELSE << <<b, n>> >>

RECURSIVE BLen(_)
BLen(bs0) ==
    CHOOSE r \in {IF bs = <<>> THEN 0 ELSE bs[1][2] + BLen(Tail(bs)) : bs \in {bs0}} : TRUE

\* extend_from_slice / put: a followed by b
BCat(a0, b0) ==
    CHOOSE r \in
        {IF a = <<>> THEN b
         ELSE IF b = <<>> THEN a
         ELSE IF a[Len(a)][1] = b[1][1]
              THEN SubSeq(a, 1, Len(a) - 1)
                   \o << <<b[1][1], a[Len(a)][2] + b[1][2]>> >>
                   \o Tail(b)
              ELSE a \o b : a \in {a0}, b \in {b0}} : TRUE

\* the first n bytes (split_to's result), n <= BLen(bs)
RECURSIVE BTake(_, _)
BTake(bs0, n0) ==
    CHOOSE r \in
        {IF n = 0 \/ bs = <<>> THEN <<>>
         ELSE IF bs[1][2] <= n
              THEN BCat(<<bs[1]>>, BTake(Tail(bs), n - bs[1][2]))
              ELSE << <<bs[1][1], n>> >> : bs \in {bs0}, n \in {n0}} : TRUE

\* what is left after the first n bytes are consumed (advance)
RECURSIVE BDrop(_, _)
BDrop(bs0, n0) ==
    CHOOSE r \in
        {IF n = 0 \/ bs = <<>> THEN bs
         ELSE IF bs[1][2] <= n
              THEN BDrop(Tail(bs), n - bs[1][2])
              ELSE << <<bs[1][1], bs[1][2] - n>> >> \o Tail(bs)
            : bs \in {bs0}, n \in {n0}} : TRUE

\* the byte at offset i (0-based), i < BLen(bs)
RECURSIVE BAt(_, _)
BAt(bs0, i0) ==
    CHOOSE r \in
        {IF i < bs[1][2] THEN bs[1][1] ELSE BAt(Tail(bs), i - bs[1][2])
            : bs \in {bs0}, i \in {i0}} : TRUE

\* a plain sequence of bytes as a buffer
RECURSIVE FromSeq(_)
FromSeq(s0) ==
    CHOOSE r \in
        {IF s = <<>> THEN <<>> ELSE BCat(Repeat(s[1], 1), FromSeq(Tail(s)))
            : s \in {s0}} : TRUE

IsProperPrefix(p, whole) ==
    /\ BLen(p) < BLen(whole)
    /\ BTake(whole, BLen(p)) = p

(***************************************************************************)
(* Little-endian integers (bytes::BufMut::put_*_le, bytes::Buf::get_*_le). *)
(***************************************************************************)
put_u16_le(n) == FromSeq(<<n % 256, (n \div 256) % 256>>)

put_u32_le(n) ==
    FromSeq(<<n % 256, (n \div 256) % 256,
              (n \div 65536) % 256, (n \div 16777216) % 256>>)

get_u16_le(bs0) ==
    CHOOSE r \in {BAt(bs, 0) + 256 * BAt(bs, 1) : bs \in {bs0}} : TRUE

get_u32_le(bs0) ==
    CHOOSE r \in
        {BAt(bs, 0) + 256 * BAt(bs, 1) + 65536 * BAt(bs, 2) + 16777216 * BAt(bs, 3)
            : bs \in {bs0}} : TRUE

(***************************************************************************)
(* Frame (protocol/frame.rs).                                              *)
(***************************************************************************)
Frame(m, s, b) == [message_id |-> m, sequence_id |-> s, body |-> b]

NoFrame == [message_id |-> 0, sequence_id |-> 0, body |-> <<>>]

frame_size(f) == LENGTH_SIZE + HEADER_SIZE + BLen(f.body)

payload_size(f) == HEADER_SIZE + BLen(f.body)

\* a Frame::encode that counts the length field into the declared length
Frame_encode_CountsPrefix(f) ==
    BCat(BCat(BCat(put_u32_le(frame_size(f)),
                   put_u16_le(f.message_id)),
              put_u32_le(f.sequence_id)),
         f.body)

\* Frame::encode: length, message id, sequence id, body. (payload_size as u32
\* truncates from 2^32 on; every length of the model is below 2^31.)
Frame_encode(f) ==
    BCat(BCat(BCat(put_u32_le(payload_size(f)),
                   put_u16_le(f.message_id)),
              put_u32_le(f.sequence_id)),
         f.body)

\* a Frame::validate that is off by one at the limit
Frame_validate_OffByOne(f) ==
    IF BLen(f.body) > MAX_BODY_SIZE + 1 THEN "BodyTooLarge" ELSE "Ok"

\* Frame::validate
Frame_validate(f) ==
    IF BLen(f.body) > MAX_BODY_SIZE THEN "BodyTooLarge" ELSE "Ok"

DecodeResult(r, f, e, b) == [res |-> r, frame |-> f, err |-> e, buf |-> b]

\* a decode that takes the declared length for the body length
DecodeBody_NoHeaderSub(frame_len, rest) ==
    IF BLen(rest) < 6 \/ frame_len < HEADER_SIZE
    THEN DecodeResult("Panic", NoFrame, "None", rest)
    ELSE DecodeResult("Some",
                      Frame(get_u16_le(rest), get_u32_le(BDrop(rest, 2)),
                            BTake(BDrop(rest, 6), frame_len)),
                      "None",
                      BDrop(BDrop(rest, 6), frame_len))

\* the part of Frame::decode after the length check: the frame is complete
DecodeBody(frame_len, rest) ==
    IF BLen(rest) < 6 \/ frame_len < HEADER_SIZE
    THEN \* get_u16_le / get_u32_le past the end, or frame_len - HEADER_SIZE
         \* below zero (overflow panic, or a wrapped length split_to rejects)
         DecodeResult("Panic", NoFrame, "None", rest)
    ELSE LET message_id == get_u16_le(rest)
             sequence_id == get_u32_le(BDrop(rest, 2))
             body_len == frame_len - HEADER_SIZE
             after == BDrop(rest, 6)
         IN  DecodeResult("Some",
                          Frame(message_id, sequence_id, BTake(after, body_len)),
                          "None",
                          BDrop(after, body_len))

\* a Frame::decode that does not put the length back on an incomplete frame
Frame_decode_NoRestore(b) ==
    IF BLen(b) < 4
    THEN DecodeResult("None", NoFrame, "None", b)
    ELSE LET frame_len == get_u32_le(b)
             rest == BDrop(b, 4)
         IN  IF frame_len > HEADER_SIZE + MAX_BODY_SIZE
             THEN DecodeResult("Err", NoFrame, "FrameTooLarge", rest)
             ELSE IF BLen(rest) < frame_len
                  THEN DecodeResult("None", NoFrame, "None", rest)
                  ELSE DecodeBody(frame_len, rest)

\* Frame::decode: the result and the buffer it leaves
Frame_decode(b) ==
    IF BLen(b) < 4
    THEN DecodeResult("None", NoFrame, "None", b)
    ELSE LET frame_len == get_u32_le(b)
             rest == BDrop(b, 4)
         IN  IF frame_len > HEADER_SIZE + MAX_BODY_SIZE
             THEN DecodeResult("Err", NoFrame, "FrameTooLarge", rest)
             ELSE IF BLen(rest) < frame_len
                  THEN DecodeResult("None", NoFrame, "None",
                                    BCat(put_u32_le(frame_len), rest))
                  ELSE DecodeBody(frame_len, rest)

\* MessageEncoder::encode (codec.rs): validate, then append the encoding
MessageEncoder_encode(item, dst) ==
    IF Frame_validate(item) /= "Ok"
    THEN [res |-> Frame_validate(item), dst |-> dst]
    ELSE [res |-> "Ok", dst |-> BCat(dst, Frame_encode(item))]

\* MessageDecoder::decode / MessageCodec::decode
MessageCodec_decode(src) == Frame_decode(src)

(***************************************************************************)
(* The codec on a byte stream: frames are encoded onto the stream, the     *)
(* stream reaches the receive buffer in pieces, decode is called on the    *)
(* receive buffer.                                                         *)
(***************************************************************************)
VARIABLES
    pending,    \* bytes encoded (or injected) and not yet in the receive buffer
    buf,        \* the receive buffer decode works on
    sentF,      \* the frames encoded onto the stream, in order
    decoded,    \* the frames decode has yielded, in order
    lastCall,   \* the last decode call: buffer before, result
    lastEnc,    \* the last MessageEncoder::encode call: item, result, bytes added
    ncalls,     \* decode calls made
    raw,        \* a header that is no frame's encoding was put on the stream
    early       \* decode was called before the whole stream was buffered

codecVars == <<pending, buf, sentF, decoded, lastCall, lastEnc, ncalls, raw, early>>

\* the state of the reactor
VARIABLES
    nacc,       \* connections accepted so far (connections 1..nacc)
    bal,        \* ConnectionBalancer.current
    mailbox,    \* per worker: the NewConnection records queued for it
    serving,    \* per worker: the connection it is handling, 0 when at rx.recv()
    active,     \* per worker: active_connections
    counter,    \* the static COUNTER of connection ids
    conn_id,    \* per connection: the id it was given, 0 before
    peer,       \* per connection: "open", or "closed" once the client closed
    wire,       \* per connection: bytes written by the client, not yet read
    rbuf,       \* per connection: the buffer of the FramedRead
    rpc,        \* per connection: where its reader loop is
    cur,        \* per connection: the frame whose handler is running
    chan,       \* per connection: the response channel, (msg_id, body) pairs
    wpc,        \* per connection: where its writer task is
    wcur,       \* per connection: the pair the writer task holds
    out,        \* per connection: bytes the server wrote to the socket
    sentW,      \* history: the items the client wrote, in wire order
    log,        \* history: router invocations started and returned, in order
    enq,        \* history: the pairs whose send on the channel completed
    werr        \* history: the writer task ended on a write error

acceptVars == <<nacc, bal, mailbox>>
workerVars == <<serving, active, counter, conn_id>>
clientVars == <<peer, wire, sentW>>
readerVars == <<rbuf, rpc, cur, log>>
writerVars == <<wpc, wcur, out, werr>>
chanVars == <<chan, enq>>
reactorVars == <<acceptVars, workerVars, clientVars, readerVars, writerVars, chanVars>>

\* the state of a Router under registration and dispatch
VARIABLES
    routes,     \* the route table: message id -> handler
    rlast       \* the last Router call: operation, arguments, table before, outcome

routerVars == <<routes, rlast>>

\* the state of a middleware stack and of one call through the handler built
\* from it
VARIABLES
    stack,      \* Stack.middlewares: the middlewares pushed, in push order
    chain,      \* the handler Stack::build returned: its layers, outermost first
    mwpc,       \* "setup", "running" (a call is in progress), "done"
    depth,      \* layers of the chain entered and not yet returned from
    ret,        \* the result the layer below just returned, "None" if none
    mwlog,      \* entries, handler steps, deadlines and exits, in order
    hleft,      \* suspension points the handler still has ahead
    hres,       \* what the handler returns when it completes
    hwoken,     \* what the suspended handler awaits has happened
    expired,    \* the timeout middlewares whose deadline has passed
    cancelled   \* the inner future was dropped by a timeout

mwVars == <<stack, chain, mwpc, depth, ret, mwlog, hleft, hres, hwoken, expired, cancelled>>

\* the state of the ConnectionManager handles and of the pool they share
VARIABLES
    next_id,     \* ConnectionIdGenerator.next_id of each manager handle
    creating,    \* each thread's create_connection call, if one is under way
    issued,      \* the values next() returned, in the order of the fetch_adds
    connections, \* ConnectionPoolInner.connections: id -> Connection
    now,         \* the clock
    plast        \* the last call on the pool

connVars == <<next_id, creating, issued, connections, now, plast>>

\* the state of a ConnectionBalancer and of the threads that call it
VARIABLES
    bcount,      \* ConnectionBalancer.worker_count, 0 before the balancer exists
    bcur,        \* ConnectionBalancer.current
    picking,     \* each thread's next_worker call, if one is under way
    picked       \* the indices next_worker returned, in the order of the returns

balVars == <<bcount, bcur, picking, picked>>

\* the state of the acceptor, the worker mailboxes and the worker tasks, with
\* the handling of a connection reduced to its end
VARIABLES
    accepted,    \* sockets listener.accept() has returned (sockets 1..accepted)
    acc,         \* where Acceptor::run is: "accept", "send", or how it returned
    mbox,        \* per worker: the NewConnection records in its mailbox
    wk,          \* per worker: where its task is, and the socket it handles
    cst,         \* per socket: "none", "held", "queued", "serving", "ended", "dropped"
    handoff      \* history: the sends that completed, socket and worker

accVars == <<accepted, acc, mbox, wk, cst, handoff>>

\* the state of one connection's response channel and of the tasks at its
\* two ends, with the responses counted and not told apart
VARIABLES
    rdr,         \* the reader loop: "read", "handler", "sending", "exited"
    det,         \* a Context clone the handler gave away: where it is, and
                 \* whether its send began after the reader loop had ended
    queued,      \* the responses in the channel
    wtr,         \* the writer task: "recv", "write", "exited", "failed"
    lsend        \* the last send that returned: whose, begun when, result

respVars == <<rdr, det, queued, wtr, lsend>>

\* the state of a ClientConnection's sequence id generator
VARIABLES
    seqctr,      \* ClientConnection.sequence_id, the AtomicU64, as four 16-bit
                 \* limbs, most significant first
    seqsent      \* the sequence_id of the frames the last calls built, in order

seqVars == <<seqctr, seqsent>>

\* the state of a PluginRegistry
VARIABLES
    plugin_names,     \* the keys of PluginRegistry.plugin_names
    dependency_graph, \* per plugin name: its dependencies, <<>> when it has no entry
    pord              \* the last initialization_order call: its result

plugVars == <<plugin_names, dependency_graph, pord>>

\* one Connection record in the hands of its owner
VARIABLES
    crec         \* the record: id, state, created_at, last_active

recVars == <<crec>>

\* the metrics of a ConnectionManager
VARIABLES
    current_connections  \* ConnectionMetrics.current_connections

bookVars == <<current_connections>>

\* one ClientConnection with its background sender task, the server at the
\* other end of its socket, and the HighLevelClient that may own it
VARIABLES
    client_state,    \* ClientConnection.state, the shared ClientState
    high_level,      \* whether a HighLevelClient owns the connection
    auto_reconnect,  \* ClientConfig.auto_reconnect
    send_tx,         \* whether the connection's Sender of the frame channel lives
    send_rx,         \* the frames in the channel
    sender_task,     \* the sender task: "unspawned", "recv", "check", "send", "ended"
    taken,           \* the frame the sender task received, 0 when none
    on_wire,         \* the frames written to the socket, in order
    write_failed,    \* whether a write to the socket failed
    sent_ok,         \* history: the frames whose send_frame returned Ok, in order
    send_res,        \* the last send_frame: its result, and whether a recv_frame
                     \* had failed before
    inbound,         \* the frames of the server not yet received
    peer_closed,     \* whether the server closed the socket
    recv_lost,       \* whether a recv_frame failed on the closed socket
    receiver_task,   \* the receiver task: "unspawned", "state", "lock",
                     \* "recv_frame", "emit", "ended"
    connection_lock, \* HighLevelClient.connection, the Mutex: "free", "receiver"
    disconnected,    \* the Disconnected events emitted
    query,           \* a state() or is_connected() call: "idle", "lock"
    asked            \* the last is_connected(): its result, and whether a
                     \* recv_frame had failed before

cliVars ==
    <<client_state, high_level, auto_reconnect, send_tx, send_rx, sender_task,
      taken, on_wire, write_failed, sent_ok, send_res, inbound, peer_closed,
      recv_lost, receiver_task, connection_lock, disconnected, query, asked>>

\* the state of the tasks exercised on their own
taskVars == <<accVars, respVars, seqVars, plugVars, recVars, bookVars, cliVars>>

\* the state of the components exercised on their own
libVars == <<routerVars, mwVars, connVars, balVars, taskVars>>

\* what a component leaves alone
routerRest == <<codecVars, reactorVars, mwVars, connVars, balVars, taskVars>>
mwRest == <<codecVars, reactorVars, routerVars, connVars, balVars, taskVars>>
connRest == <<codecVars, reactorVars, routerVars, mwVars, balVars, taskVars>>
balRest == <<codecVars, reactorVars, routerVars, mwVars, connVars, taskVars>>
baseVars == <<codecVars, reactorVars, routerVars, mwVars, connVars, balVars>>
accRest == <<baseVars, respVars, seqVars, plugVars, recVars, bookVars, cliVars>>
respRest == <<baseVars, accVars, seqVars, plugVars, recVars, bookVars, cliVars>>
seqRest == <<baseVars, accVars, respVars, plugVars, recVars, bookVars, cliVars>>
plugRest == <<baseVars, accVars, respVars, seqVars, recVars, bookVars, cliVars>>
recRest == <<baseVars, accVars, respVars, seqVars, plugVars, bookVars, cliVars>>
bookRest ==
    <<codecVars, reactorVars, routerVars, mwVars, balVars,
      accVars, respVars, seqVars, plugVars, recVars, cliVars>>
cliRest == <<baseVars, accVars, respVars, seqVars, plugVars, recVars, bookVars>>

vars == <<codecVars, reactorVars, libVars>>

\* bodies: the prefixes of a byte pattern, and the two sizes at the limit
BodyPattern == <<0, 104, 0, 105>>

CodecBodies ==
    {FromSeq(SubSeq(BodyPattern, 1, n)) : n \in 0..Min(MaxBodyLen, Len(BodyPattern))}
        \cup {Repeat(0, MAX_BODY_SIZE), Repeat(0, MAX_BODY_SIZE + 1)}

CodecHeaders == {<<1001, 42>>, <<U16 - 1, I32Max>>}

CodecFrames == {Frame(h[1], h[2], b) : h \in CodecHeaders, b \in CodecBodies}

\* frames that follow another frame on the stream: one header, the bodies of
\* at most one byte
FollowerFrames == {f \in CodecFrames : f.message_id = 1001 /\ BLen(f.body) <= 1}

\* declared lengths of injected headers: too short to hold a header, one past
\* the limit, and the largest
RawLengths == {HEADER_SIZE - 1, HEADER_SIZE + MAX_BODY_SIZE + 1, I32Max}

\* how many bytes may follow an injected header: a header's worth after a
\* length too short to hold one, none or one after a length past the limit
RawTails(n) == IF n < HEADER_SIZE THEN {0, HEADER_SIZE} ELSE {0, 1}

NoCall == [in |-> <<>>, out |-> DecodeResult("Unset", NoFrame, "None", <<>>)]

NoEnc == [item |-> NoFrame, res |-> "Unset", added |-> 0]

CodecInit ==
    /\ pending = <<>>
    /\ buf = <<>>
    /\ sentF = <<>>
    /\ decoded = <<>>
    /\ lastCall = NoCall
    /\ lastEnc = NoEnc
    /\ ncalls = 0
    /\ raw = FALSE
    /\ early = FALSE

CodecRunning == lastCall.out.res /= "Panic"

\* encoder.encode(item, &mut dst) on the stream
CodecEncode(item) ==
    /\ CodecRunning
    /\ Len(sentF) < MaxFrames
    /\ sentF /= <<>> => item \in FollowerFrames
    /\ ~raw
    /\ LET r == MessageEncoder_encode(item, pending)
       IN  /\ pending' = r.dst
           /\ lastEnc' = [item |-> item, res |-> r.res,
                          added |-> BLen(r.dst) - BLen(pending)]
           /\ sentF' = IF r.res = "Ok" THEN Append(sentF, item) ELSE sentF
    /\ early' = (early \/ ncalls > 0)
    /\ UNCHANGED <<buf, decoded, lastCall, ncalls, raw, reactorVars, libVars>>

\* a peer writes a header declaring length n, followed by k bytes; a length
\* too short to hold a header is what the peer opens the stream with
CodecInject(n, k) ==
    /\ CodecRunning
    /\ ~raw
    /\ n < HEADER_SIZE => sentF = <<>>
    /\ pending' = BCat(pending, BCat(put_u32_le(n), Repeat(7, k)))
    /\ raw' = TRUE
    /\ UNCHANGED <<buf, sentF, decoded, lastCall, lastEnc, ncalls, early, reactorVars, libVars>>

\* n more bytes of the stream reach the receive buffer
CodecFeed(n) ==
    /\ CodecRunning
    /\ n > 0
    /\ n <= BLen(pending)
    /\ \/ n <= MaxChunk /\ BLen(buf) + n <= MaxPartial
       \/ n >= BLen(pending) - 1
    /\ buf' = BCat(buf, BTake(pending, n))
    /\ pending' = BDrop(pending, n)
    /\ UNCHANGED <<sentF, decoded, lastCall, lastEnc, ncalls, raw, early, reactorVars, libVars>>

\* decoder.decode(&mut src)
CodecDecode ==
    /\ CodecRunning
    /\ ncalls < MaxCalls
    /\ LET r == MessageCodec_decode(buf)
       IN  /\ lastCall' = [in |-> buf, out |-> r]
           /\ buf' = r.buf
           /\ decoded' = IF r.res = "Some" THEN Append(decoded, r.frame) ELSE decoded
    /\ ncalls' = ncalls + 1
    /\ early' = (early \/ pending /= <<>>)
    /\ UNCHANGED <<pending, sentF, lastEnc, raw, reactorVars, libVars>>

CodecNext ==
    \/ \E item \in CodecFrames : CodecEncode(item)
    \/ \E n \in RawLengths : \E k \in RawTails(n) : CodecInject(n, k)
    \/ \E n \in (1..MaxChunk) \cup {BLen(pending) - 1, BLen(pending)} : CodecFeed(n)
    \/ CodecDecode


(***************************************************************************)
(* The reactor: acceptor, balancer, worker, and per connection the reader  *)
(* loop, the handler in progress, the response channel and the writer      *)
(* task (reactor/acceptor.rs, reactor/balancer.rs, reactor/worker.rs).     *)
(***************************************************************************)
\* the worker count the reactor is started with (ServerConfig.worker_threads)
worker_count == 1
\* WorkerConfig::default().channel_size
channel_size == 1024
\* capacity of a connection's response channel
RESPONSE_CHANNEL_SIZE == 128

Workers == 0..(worker_count - 1)
Conns == 1..NumConns

\* message ids of the ping route and of its response (examples/start.rs)
MSG_ID_PING == 1001
MSG_ID_PONG == 1002


\* what clients send: two pings with different bodies and sequence ids, a
\* frame for a slow (failing) route, a frame no route is registered for
PingH == Frame(MSG_ID_PING, 42, FromSeq(<<104>>))
PingI == Frame(MSG_ID_PING, 7, FromSeq(<<105>>))
SlowF == Frame(2001, 0, <<>>)
UnknownF == Frame(9999, 1, <<>>)
ClientFrames == {PingH, PingI, SlowF, UnknownF}

\* the header of E2: it declares 6 + (MAX_BODY_SIZE + 1) bytes
OversizeHeader == put_u32_le(HEADER_SIZE + MAX_BODY_SIZE + 1)

\* the routes registered at startup: a ping handler that responds with the
\* body it got, and a handler whose chain ends in an error (a timeout)
Routes == [m \in {MSG_ID_PING, SlowF.message_id} |->
              IF m = MSG_ID_PING THEN "echo" ELSE "fail"]

\* Router::get_route
get_route(m) == IF m \in DOMAIN Routes THEN Routes[m] ELSE "none"

ReactorInit ==
    /\ nacc = 0
    /\ bal = 0
    /\ mailbox = [w \in Workers |-> <<>>]
    /\ serving = [w \in Workers |-> 0]
    /\ active = [w \in Workers |-> 0]
    /\ counter = 1
    /\ conn_id = [c \in Conns |-> 0]
    /\ peer = [c \in Conns |-> "open"]
    /\ wire = [c \in Conns |-> <<>>]
    /\ rbuf = [c \in Conns |-> <<>>]
    /\ rpc = [c \in Conns |-> "idle"]
    /\ cur = [c \in Conns |-> NoFrame]
    /\ chan = [c \in Conns |-> <<>>]
    /\ wpc = [c \in Conns |-> "none"]
    /\ wcur = [c \in Conns |-> <<>>]
    /\ out = [c \in Conns |-> <<>>]
    /\ sentW = [c \in Conns |-> <<>>]
    /\ log = [c \in Conns |-> <<>>]
    /\ enq = [c \in Conns |-> <<>>]
    /\ werr = [c \in Conns |-> FALSE]

\* ConnectionBalancer::next_worker: fetch_add, modulo the worker count
next_worker == bal % worker_count

\* Acceptor::run, one turn of the loop: accept, pick a worker, send it the
\* connection (the send waits while the mailbox is full)
Accept ==
    /\ nacc < NumConns
    /\ LET w == next_worker
       IN  /\ Len(mailbox[w]) < channel_size
           /\ mailbox' = [mailbox EXCEPT ![w] = Append(@, nacc + 1)]
    /\ bal' = bal + 1
    /\ nacc' = nacc + 1
    /\ UNCHANGED <<workerVars, clientVars, readerVars, writerVars, chanVars, codecVars, libVars>>

\* Worker::spawn, rx.recv() yields a connection: count it and enter
\* handle_connection_with_router up to the first read (split the stream,
\* create the response channel, spawn the writer task, take an id)
WorkerRecv(w) ==
    /\ serving[w] = 0
    /\ mailbox[w] /= <<>>
    /\ LET c == Head(mailbox[w])
       IN  /\ serving' = [serving EXCEPT ![w] = c]
           /\ conn_id' = [conn_id EXCEPT ![c] = counter]
           /\ rpc' = [rpc EXCEPT ![c] = "read"]
           /\ wpc' = [wpc EXCEPT ![c] = "recv"]
    /\ mailbox' = [mailbox EXCEPT ![w] = Tail(@)]
    /\ active' = [active EXCEPT ![w] = @ + 1]
    /\ counter' = counter + 1
    /\ UNCHANGED <<nacc, bal, clientVars, rbuf, cur, log, wcur, out, werr, chanVars, codecVars, libVars>>

\* items written by the clients of connections 1..n
RECURSIVE SendsUpTo(_)
SendsUpTo(n) == IF n = 0 THEN 0 ELSE Len(sentW[n]) + SendsUpTo(n - 1)

Sends == SendsUpTo(NumConns)

FrameItem(f) == [kind |-> "frame", frame |-> f]
OversizeItem == [kind |-> "oversize", frame |-> NoFrame]

Event(e, f, r) == [ev |-> e, frame |-> f, res |-> r]

IsPrefix(a, b) == Len(a) <= Len(b) /\ SubSeq(b, 1, Len(a)) = a

\* what a client writes over the life of its connection: pings with
\* different sequence ids and bodies; a route miss and a handler error before
\* a ping; an oversize header first, or between two pings
Scenarios ==
    {<<FrameItem(PingH), FrameItem(PingI), FrameItem(PingH)>>,
     <<FrameItem(UnknownF), FrameItem(SlowF), FrameItem(PingH)>>,
     <<OversizeItem, FrameItem(PingH)>>,
     <<FrameItem(PingI), OversizeItem, FrameItem(PingH)>>}

\* the client of connection c writes item next
MayWrite(c, item) == \E s \in Scenarios : IsPrefix(Append(sentW[c], item), s)

\* the client of connection c writes a frame
ClientSend(c, f) ==
    /\ c <= nacc
    /\ peer[c] = "open"
    /\ Sends < MaxSends
    /\ MayWrite(c, FrameItem(f))
    /\ wire' = [wire EXCEPT ![c] = BCat(@, Frame_encode(f))]
    /\ sentW' = [sentW EXCEPT ![c] = Append(@, FrameItem(f))]
    /\ UNCHANGED <<peer, acceptVars, workerVars, readerVars, writerVars, chanVars, codecVars, libVars>>

\* the client of connection c writes a header declaring an oversize frame
ClientSendOversize(c) ==
    /\ c <= nacc
    /\ peer[c] = "open"
    /\ Sends < MaxSends
    /\ MayWrite(c, OversizeItem)
    /\ wire' = [wire EXCEPT ![c] = BCat(@, OversizeHeader)]
    /\ sentW' = [sentW EXCEPT ![c] = Append(@, OversizeItem)]
    /\ UNCHANGED <<peer, acceptVars, workerVars, readerVars, writerVars, chanVars, codecVars, libVars>>

\* the client of connection c closes its socket
ClientClose(c) ==
    /\ c <= nacc
    /\ peer[c] = "open"
    /\ peer' = [peer EXCEPT ![c] = "closed"]
    /\ UNCHANGED <<wire, sentW, acceptVars, workerVars, readerVars, writerVars, chanVars, codecVars, libVars>>

WorkerOf(c) == CHOOSE w \in Workers : serving[w] = c

\* a reader loop that takes the next frame while a handler is in progress
ReaderReady_NoAwait(c) == rpc[c] \in {"read", "handling", "responded"}

\* the reader loop is at read_half.next().await
ReaderReady(c) == rpc[c] = "read"

\* handle_connection_with_router returns: the worker counts the connection
\* out and goes back to rx.recv()
ReaderExit(c) ==
    /\ rpc' = [rpc EXCEPT ![c] = "exited"]
    /\ serving' = [serving EXCEPT ![WorkerOf(c)] = 0]
    /\ active' = [active EXCEPT ![WorkerOf(c)] = @ - 1]
    /\ UNCHANGED <<cur, log, counter, conn_id>>

\* decode panics inside the worker task: the task is gone, and with it the
\* future of the connection it was handling
WorkerPanic(c) ==
    /\ rpc' = [rpc EXCEPT ![c] = "exited"]
    /\ serving' = [serving EXCEPT ![WorkerOf(c)] = 0 - 1]
    /\ UNCHANGED <<cur, log, active, counter, conn_id>>

\* a reader loop that ends on a handler error
AfterHandle_BreakOnError(c, result) == IF result = "Ok" THEN "read" ELSE "exited"

\* the reader loop after router.handle(ctx).await: an error is logged, and
\* the loop goes on to the next frame
AfterHandle(c, result) == "read"

\* Router::handle on a frame: no route is an error at once; otherwise the
\* handler is called and the reader loop awaits it
Dispatch(c, frame) ==
    IF get_route(frame.message_id) = "none"
    THEN /\ log' = [log EXCEPT ![c] = @ \o <<Event("start", frame, "None"),
                                                Event("ret", frame, "RouteNotFound")>>]
         /\ rpc' = [rpc EXCEPT ![c] = AfterHandle(c, "RouteNotFound")]
         /\ UNCHANGED cur
    ELSE /\ log' = [log EXCEPT ![c] = Append(@, Event("start", frame, "None"))]
         /\ rpc' = [rpc EXCEPT ![c] = "handling"]
         /\ cur' = [cur EXCEPT ![c] = frame]

\* one turn of the reader loop: the FramedRead takes what the socket holds
\* and decodes; a frame goes to the router, a decode error or the end of the
\* stream ends the loop
ReaderStep(c) ==
    /\ ReaderReady(c)
    /\ c \in {serving[w] : w \in Workers}
    /\ LET b == BCat(rbuf[c], wire[c])
           r == MessageCodec_decode(b)
       IN  /\ r.res = "None" => (wire[c] /= <<>> \/ peer[c] = "closed")
           /\ wire' = [wire EXCEPT ![c] = <<>>]
           /\ rbuf' = [rbuf EXCEPT ![c] = r.buf]
           /\ IF r.res = "Some"
              THEN /\ Dispatch(c, r.frame)
                   /\ UNCHANGED <<serving, active, counter, conn_id>>
              ELSE IF r.res = "Panic"
              THEN WorkerPanic(c)
              ELSE IF r.res = "Err" \/ (wire[c] = <<>> /\ peer[c] = "closed")
              THEN ReaderExit(c)
              ELSE UNCHANGED <<rpc, cur, log, workerVars>>
    /\ UNCHANGED <<acceptVars, peer, sentW, writerVars, chanVars, codecVars, libVars>>

\* the writer task is gone: the receiver of the response channel is dropped
ReceiverDropped(c) == wpc[c] = "exited"

\* the ping handler calls ctx.respond(MSG_ID_PONG, body): a send on the
\* response channel, which waits while the channel is full and fails once
\* the receiver is dropped
HandlerRespond(c) ==
    /\ rpc[c] = "handling"
    /\ get_route(cur[c].message_id) = "echo"
    /\ IF ReceiverDropped(c)
       THEN UNCHANGED chanVars
       ELSE /\ Len(chan[c]) < RESPONSE_CHANNEL_SIZE
            /\ chan' = [chan EXCEPT ![c] = Append(@, <<MSG_ID_PONG, cur[c].body>>)]
            /\ enq' = [enq EXCEPT ![c] = Append(@, <<MSG_ID_PONG, cur[c].body>>)]
    /\ rpc' = [rpc EXCEPT ![c] = "responded"]
    /\ UNCHANGED <<rbuf, cur, log, acceptVars, workerVars, clientVars, writerVars, codecVars, libVars>>

\* what the handler chain of the frame in progress returns
HandlerResult(c) ==
    IF get_route(cur[c].message_id) = "fail" THEN "Timeout" ELSE "Ok"

\* the handler returns; its Context (and the sender in it) is dropped
HandlerReturn(c) ==
    /\ \/ rpc[c] = "responded"
       \/ rpc[c] = "handling" /\ get_route(cur[c].message_id) = "fail"
    /\ log' = [log EXCEPT ![c] = Append(@, Event("ret", cur[c], HandlerResult(c)))]
    /\ rpc' = [rpc EXCEPT ![c] = AfterHandle(c, HandlerResult(c))]
    /\ cur' = [cur EXCEPT ![c] = NoFrame]
    /\ UNCHANGED <<rbuf, acceptVars, workerVars, clientVars, writerVars, chanVars, codecVars, libVars>>

\* a channel whose recv() gives None whenever it is empty
SendersDropped_Always(c) == TRUE

\* every sender of the response channel is dropped: the reader loop's
\* response_tx and the clone in each Context
SendersDropped(c) == rpc[c] = "exited"

\* a channel that yields the newest pair
RecvIndex_Last(q) == Len(q)

\* which queued pair response_rx.recv() yields: the oldest
RecvIndex(q) == 1

\* the writer task at response_rx.recv().await: it takes a pair, or ends
\* when the channel is empty and no sender is left
WriterRecv(c) ==
    /\ wpc[c] = "recv"
    /\ IF chan[c] /= <<>>
       THEN /\ wcur' = [wcur EXCEPT ![c] = chan[c][RecvIndex(chan[c])]]
            /\ chan' = [chan EXCEPT ![c] =
                           SubSeq(@, 1, RecvIndex(@) - 1)
                           \o SubSeq(@, RecvIndex(@) + 1, Len(@))]
            /\ wpc' = [wpc EXCEPT ![c] = "send"]
       ELSE /\ SendersDropped(c)
            /\ wpc' = [wpc EXCEPT ![c] = "exited"]
            /\ UNCHANGED <<wcur, chan>>
    /\ UNCHANGED <<out, werr, enq, acceptVars, workerVars, clientVars, readerVars, codecVars, libVars>>

\* a writer task that answers with the sequence id of the ping
ResponseFrame_EchoSeq(item) == Frame(item[1], 42, item[2])

\* the frame the writer task builds from a pair
ResponseFrame(item) == Frame(item[1], 0, item[2])

\* a writer task that holds the write half of the first connection
WriterSocket_Shared(c) == 1

\* the socket the writer task of connection c writes to: the write half of
\* the stream it was spawned with
WriterSocket(c) == c

\* the writer task at write_half.send(frame).await: the frame is encoded and
\* written; on an error (the encoder's, or the socket's once the client is
\* gone) the task ends
WriterSend(c) ==
    /\ wpc[c] = "send"
    /\ LET e == MessageEncoder_encode(ResponseFrame(wcur[c]), <<>>)
       IN  \/ /\ e.res = "Ok"
              /\ out' = [out EXCEPT ![WriterSocket(c)] = BCat(@, e.dst)]
              /\ wpc' = [wpc EXCEPT ![c] = "recv"]
              /\ UNCHANGED werr
           \/ /\ e.res /= "Ok" \/ peer[c] = "closed"
              /\ wpc' = [wpc EXCEPT ![c] = "exited"]
              /\ werr' = [werr EXCEPT ![c] = TRUE]
              /\ UNCHANGED out
    /\ wcur' = [wcur EXCEPT ![c] = <<>>]
    /\ UNCHANGED <<chanVars, acceptVars, workerVars, clientVars, readerVars, codecVars, libVars>>

ReactorNext ==
    \/ Accept
    \/ \E w \in Workers : WorkerRecv(w)
    \/ \E c \in Conns, f \in ClientFrames : ClientSend(c, f)
    \/ \E c \in Conns : ClientSendOversize(c)
    \/ \E c \in Conns : ClientClose(c)
    \/ \E c \in Conns : ReaderStep(c)
    \/ \E c \in Conns : HandlerRespond(c)
    \/ \E c \in Conns : HandlerReturn(c)
    \/ \E c \in Conns : WriterRecv(c)
    \/ \E c \in Conns : WriterSend(c)

(***************************************************************************)
(* The router on its own (aerox_router/src/router.rs): routes are added    *)
(* and messages dispatched.                                                *)
(***************************************************************************)
\* message ids and handlers of the router tests, and a handler that fails
RouteIds == {100, 200, 999}
Handlers == {"test_handler", "echo_handler", "failing_handler"}

\* what handler.call(ctx).await returns
HandlerOutcome(h) == IF h = "failing_handler" THEN "HandlerError" ELSE "Ok"

\* Router::new
EmptyRoutes == [m \in {} |-> "none"]

\* Router::route_count
route_count(table) == Cardinality(DOMAIN table)

\* an add_route that inserts without looking
add_route_Overwrite(table, m, h) ==
    [res |-> "Ok", routes |-> [x \in DOMAIN table \cup {m} |-> IF x = m THEN h ELSE table[x]]]

\* Router::add_route: an error if the id is taken, else insert
add_route(table, m, h) ==
    IF m \in DOMAIN table
    THEN [res |-> "RouteExists", routes |-> table]
    ELSE [res |-> "Ok",
          routes |-> [x \in DOMAIN table \cup {m} |-> IF x = m THEN h ELSE table[x]]]

\* a handle that answers a miss with Ok
Router_handle_SwallowMiss(table, m) ==
    IF m \notin DOMAIN table
    THEN [res |-> "Ok", invoked |-> <<>>]
    ELSE [res |-> HandlerOutcome(table[m]), invoked |-> <<table[m]>>]

\* Router::handle: get_route, an error on a miss, else the handler's result
Router_handle(table, m) ==
    IF m \notin DOMAIN table
    THEN [res |-> "RouteNotFound", invoked |-> <<>>]
    ELSE [res |-> HandlerOutcome(table[m]), invoked |-> <<table[m]>>]

RouterCall(o, m, h, before, res, invoked) ==
    [op |-> o, m |-> m, h |-> h, before |-> before, res |-> res, invoked |-> invoked]

RouterInit ==
    /\ routes = EmptyRoutes
    /\ rlast = RouterCall("none", 0, "none", EmptyRoutes, "None", <<>>)

RouterAddRoute(m, h) ==
    /\ routes' = add_route(routes, m, h).routes
    /\ rlast' = RouterCall("add_route", m, h, routes, add_route(routes, m, h).res, <<>>)
    /\ UNCHANGED routerRest

RouterHandle(m) ==
    /\ rlast' = RouterCall("handle", m, "none", routes,
                           Router_handle(routes, m).res, Router_handle(routes, m).invoked)
    /\ UNCHANGED <<routes, routerRest>>

RouterNext ==
    \/ \E m \in RouteIds, h \in Handlers : RouterAddRoute(m, h)
    \/ \E m \in RouteIds : RouterHandle(m)

(***************************************************************************)
(* The middleware stack (aerox_router/src/middleware.rs): middlewares are  *)
(* pushed, a handler is built around a final handler and called once.      *)
(* A layer is named by the position its middleware was pushed at; the      *)
(* final handler is layer 0.                                               *)
(***************************************************************************)
\* a middleware that awaits next.run and returns its result (LoggingMiddleware,
\* add_data_middleware), one that returns without calling next.run, and
\* TimeoutMiddleware
MiddlewareKinds == {"pass", "short", "timeout"}

RECURSIVE WrapAll(_, _)
\* the loop of Stack::build: each middleware of order wraps what was built
WrapAll(order, current) ==
    IF order = <<>> THEN current
    ELSE WrapAll(Tail(order), <<Head(order)>> \o current)

\* a Stack::build that walks the middlewares in push order
Stack_build_NoRev(mws) == WrapAll([i \in 1..Len(mws) |-> i], <<>>)

\* Stack::build: the middlewares are walked in reverse, so that the first
\* pushed ends up outermost
Stack_build(mws) == WrapAll([i \in 1..Len(mws) |-> Len(mws) + 1 - i], <<>>)

MwEvent(e, l, r) == [ev |-> e, layer |-> l, res |-> r]

\* the layer at depth d of the call, and its kind
LayerAt(d) == IF d = Len(chain) + 1 THEN 0 ELSE chain[d]
KindAt(d) == IF d = Len(chain) + 1 THEN "handler" ELSE stack[chain[d]]

\* the timeout layers, among those entered, whose deadline has passed
ExpiredDepths == {d \in 1..depth : KindAt(d) = "timeout" /\ LayerAt(d) \in expired}

MaxOf(S) == CHOOSE x \in S : \A y \in S : y <= x

MwInit ==
    /\ stack = <<>>
    /\ chain = <<>>
    /\ mwpc = "setup"
    /\ depth = 0
    /\ ret = "None"
    /\ mwlog = <<>>
    /\ hleft = 0
    /\ hres = "Ok"
    /\ hwoken = FALSE
    /\ expired = {}
    /\ cancelled = FALSE

\* Stack::push
MwPush(k) ==
    /\ mwpc = "setup"
    /\ Len(stack) < MaxStack
    /\ stack' = Append(stack, k)
    /\ UNCHANGED <<chain, mwpc, depth, ret, mwlog, hleft, hres, hwoken, expired, cancelled, mwRest>>

\* Stack::build around a handler that suspends n times and returns r, and
\* the call of the handler built
MwBuild(n, r) ==
    /\ mwpc = "setup"
    /\ chain' = Stack_build(stack)
    /\ hleft' = n
    /\ hres' = r
    /\ mwpc' = "running"
    /\ UNCHANGED <<stack, depth, ret, mwlog, hwoken, expired, cancelled, mwRest>>

\* TimeoutMiddleware polls its delay after the inner future returned
\* Pending: the innermost timeout whose deadline has passed returns the
\* Timeout error, and the future below it is dropped
TimeoutFires(events) ==
    /\ depth' = MaxOf(ExpiredDepths) - 1
    /\ ret' = "Timeout"
    /\ cancelled' = TRUE
    /\ mwlog' = Append(events, MwEvent("exit", LayerAt(MaxOf(ExpiredDepths)), "Timeout"))
    /\ mwpc' = IF MaxOf(ExpiredDepths) = 1 THEN "done" ELSE "running"

\* a timeout that polls its delay whatever the inner future returned
DelayPolled_Always(left) == TRUE

\* tokio::time::timeout polls its delay only after the inner future returned
\* Pending: the handler has suspension points left
DelayPolled(left) == left > 0

\* the handler is entered and is at one of its suspension points
HandlerSuspended == depth = Len(chain) + 1 /\ hleft > 0

\* MiddlewareHandler::call / Next::run: the layer on top calls the layer
\* below it. The final handler runs to its first suspension point, or
\* through; if it suspends under a timeout whose deadline has passed
\* already, that timeout fires in the same poll.
MwEnter ==
    /\ mwpc = "running"
    /\ ret = "None"
    /\ depth < Len(chain) + 1
    /\ IF depth = 0 THEN TRUE ELSE KindAt(depth) \in {"pass", "timeout"}
    /\ LET entered == Append(mwlog, MwEvent("enter", LayerAt(depth + 1), "None"))
       IN  IF depth = Len(chain) /\ DelayPolled(hleft) /\ ExpiredDepths /= {}
           THEN TimeoutFires(entered)
           ELSE /\ depth' = depth + 1
                /\ mwlog' = entered
                /\ UNCHANGED <<ret, cancelled, mwpc>>
    /\ UNCHANGED <<stack, chain, hleft, hres, hwoken, expired, mwRest>>

\* the deadline of the timeout middleware pushed at position l passes while
\* its inner future has not returned
MwExpire(l) ==
    /\ mwpc = "running"
    /\ ret = "None"
    /\ l \notin expired
    /\ \E d \in 1..depth : KindAt(d) = "timeout" /\ LayerAt(d) = l
    /\ expired' = expired \cup {l}
    /\ mwlog' = Append(mwlog, MwEvent("deadline", l, "None"))
    /\ UNCHANGED <<stack, chain, mwpc, depth, ret, hleft, hres, hwoken, cancelled, mwRest>>

\* what the suspended handler awaits happens
HandlerWake ==
    /\ mwpc = "running"
    /\ HandlerSuspended
    /\ ~hwoken
    /\ hwoken' = TRUE
    /\ UNCHANGED <<stack, chain, mwpc, depth, ret, mwlog, hleft, hres, expired, cancelled, mwRest>>

\* the task is polled after a wake-up (the handler's, or a deadline's):
\* tokio::time::timeout polls the inner future first, so a woken handler
\* runs to its next suspension point or through; if it is still pending, the
\* delay is polled
MwPoll ==
    /\ mwpc = "running"
    /\ HandlerSuspended
    /\ hwoken \/ ExpiredDepths /= {}
    /\ LET left == IF hwoken THEN hleft - 1 ELSE hleft
           polled == IF hwoken THEN Append(mwlog, MwEvent("step", 0, "None")) ELSE mwlog
       IN  /\ hleft' = left
           /\ IF DelayPolled(left) /\ ExpiredDepths /= {}
              THEN TimeoutFires(polled)
              ELSE /\ mwlog' = polled
                   /\ UNCHANGED <<depth, ret, cancelled, mwpc>>
    /\ hwoken' = FALSE
    /\ UNCHANGED <<stack, chain, hres, expired, mwRest>>

\* the layer on top returns to its caller: the final handler its result, a
\* short-circuiting middleware its own, any other middleware what next.run
\* returned
MwReturn ==
    /\ mwpc = "running"
    /\ depth >= 1
    /\ \/ ret /= "None"
       \/ KindAt(depth) = "short"
       \/ KindAt(depth) = "handler" /\ hleft = 0
    /\ LET result == IF ret /= "None" THEN ret
                     ELSE IF KindAt(depth) = "short" THEN "Rejected"
                     ELSE hres
       IN  /\ ret' = result
           /\ mwlog' = Append(mwlog, MwEvent("exit", LayerAt(depth), result))
    /\ depth' = depth - 1
    /\ mwpc' = IF depth = 1 THEN "done" ELSE "running"
    /\ UNCHANGED <<stack, chain, hleft, hres, hwoken, expired, cancelled, mwRest>>

MwNext ==
    \/ \E k \in MiddlewareKinds : MwPush(k)
    \/ \E n \in 0..MaxSuspend, r \in {"Ok", "HandlerError"} : MwBuild(n, r)
    \/ MwEnter
    \/ \E l \in 1..MaxStack : MwExpire(l)
    \/ HandlerWake
    \/ MwPoll
    \/ MwReturn

(***************************************************************************)
(* The connection manager: ConnectionIdGenerator, ConnectionManager and    *)
(* ConnectionPool. A clone of a manager shares the pool of the original.   *)
(***************************************************************************)
Threads == 1..NumThreads

\* a fetch_add that leaves the counter as it was
fetch_add_NoStore(val, n) == [old |-> val, new |-> val]

\* AtomicU64::fetch_add: one atomic step that returns the old value (the
\* counter wraps at 2^64, out of reach of MaxIds)
fetch_add(val, n) == [old |-> val, new |-> val + n]

\* ConnectionIdGenerator::new: the counter starts at 1
ConnectionIdGenerator_new == 1

\* Connection::new: last_active is the time of creation
Connection_new(i, t) == [id |-> i, last_active |-> t]

\* Connection::idle_time, read at time t
idle_time(conn, t) == t - conn.last_active

EmptyPool == [i \in {} |-> 0]

\* ConnectionPool::add: HashMap::insert, which replaces an entry with the
\* same id
pool_add(conns, conn) ==
    [k \in DOMAIN conns \cup {conn.id} |-> IF k = conn.id THEN conn ELSE conns[k]]

\* a remove that hands the connection out and leaves its entry in the map
pool_remove_KeepEntry(conns, id) ==
    [res |-> IF id \in DOMAIN conns THEN "Some" ELSE "None", connections |-> conns]

\* ConnectionPool::remove: Ok(HashMap::remove(&id))
pool_remove(conns, id) ==
    [res |-> IF id \in DOMAIN conns THEN "Some" ELSE "None",
     connections |-> [k \in DOMAIN conns \ {id} |-> conns[k]]]

\* a cleanup_idle that removes a connection idle for exactly the timeout
cleanup_idle_AtLeast(conns, timeout, at) ==
    LET to_remove == {id \in DOMAIN conns : idle_time(conns[id], at[id]) >= timeout}
    IN  [count |-> Cardinality(to_remove),
         connections |-> [k \in DOMAIN conns \ to_remove |-> conns[k]]]

\* ConnectionPool::cleanup_idle, where at[id] is the time at which the scan
\* reads the idle time of connection id
cleanup_idle(conns, timeout, at) ==
    LET to_remove == {id \in DOMAIN conns : idle_time(conns[id], at[id]) > timeout}
    IN  [count |-> Cardinality(to_remove),
         connections |-> [k \in DOMAIN conns \ to_remove |-> conns[k]]]

NotCreating == [pc |-> "idle", mgr |-> 0, conn |-> Connection_new(0, 0)]

\* a call on the pool: operation, argument, result, how many calls the pool
\* has served, and the call before this one
PoolCall(o, a, r) ==
    [op |-> o, arg |-> a, res |-> r, n |-> plast.n + 1,
     prev |-> [op |-> plast.op, arg |-> plast.arg, res |-> plast.res]]

\* ConnectionPool::contains
pool_contains(conns, id) == id \in DOMAIN conns

ConnInit ==
    /\ next_id = <<ConnectionIdGenerator_new>>
    /\ creating = [t \in Threads |-> NotCreating]
    /\ issued = <<>>
    /\ connections = EmptyPool
    /\ now = 0
    /\ plast = [op |-> "none", arg |-> 0, res |-> "None", n |-> 0,
                prev |-> [op |-> "none", arg |-> 0, res |-> "None"]]

\* impl Clone for ConnectionManager: the clone shares the pool and gets a
\* generator of its own
ManagerClone ==
    /\ Len(next_id) < MaxManagers
    /\ next_id' = Append(next_id, ConnectionIdGenerator_new)
    /\ UNCHANGED <<creating, issued, connections, now, plast, connRest>>

\* ConnectionManager::create_connection on handle h, first half:
\* id_generator.next() and Connection::new
CreateNextId(t, h) ==
    /\ creating[t].pc = "idle"
    /\ Len(issued) < MaxIds
    /\ LET r == fetch_add(next_id[h], 1)
       IN  /\ next_id' = [next_id EXCEPT ![h] = r.new]
           /\ issued' = Append(issued, [gen |-> h, id |-> r.old, by |-> t])
           /\ creating' = [creating EXCEPT ![t] =
                              [pc |-> "add", mgr |-> h, conn |-> Connection_new(r.old, now)]]
    /\ UNCHANGED <<connections, now, plast, connRest>>

\* create_connection, second half: pool.add(conn) under the write lock
CreatePoolAdd(t) ==
    /\ creating[t].pc = "add"
    /\ connections' = pool_add(connections, creating[t].conn)
    /\ plast' = PoolCall("add", creating[t].conn.id, "Ok")
    /\ creating' = [creating EXCEPT ![t] = NotCreating]
    /\ UNCHANGED <<next_id, issued, now, connRest>>

ManagerNext ==
    \/ ManagerClone
    \/ \E t \in Threads, h \in 1..Len(next_id) : CreateNextId(t, h)
    \/ \E t \in Threads : CreatePoolAdd(t)

\* ConnectionPool::add(Connection::new(id, addr))
PoolAdd(id) ==
    /\ plast.n < MaxPoolCalls
    /\ connections' = pool_add(connections, Connection_new(id, now))
    /\ plast' = PoolCall("add", id, "Ok")
    /\ UNCHANGED <<next_id, creating, issued, now, connRest>>

\* ConnectionPool::remove(id)
PoolRemove(id) ==
    /\ plast.n < MaxPoolCalls
    /\ LET r == pool_remove(connections, id)
       IN  /\ connections' = r.connections
           /\ plast' = PoolCall("remove", id, r.res)
    /\ UNCHANGED <<next_id, creating, issued, now, connRest>>

\* time passes
Tick ==
    /\ now < MaxTime
    /\ now' = now + 1
    /\ UNCHANGED <<next_id, creating, issued, connections, plast, connRest>>

\* ConnectionPool::cleanup_idle(timeout): under the write lock, the scan
\* reads the idle time of each connection at some time at[id] between its
\* beginning and its end, then removes those it collected
PoolCleanupIdle(timeout, at, end) ==
    /\ plast.n < MaxPoolCalls
    /\ LET r == cleanup_idle(connections, timeout, at)
       IN  /\ connections' = r.connections
           /\ plast' = PoolCall("cleanup_idle", timeout, r.count)
    /\ now' = end
    /\ UNCHANGED <<next_id, creating, issued, connRest>>

PoolNext ==
    \/ \E id \in 1..MaxIds : PoolAdd(id)
    \/ \E id \in 1..MaxIds : PoolRemove(id)
    \/ Tick
    \/ \E timeout \in 0..MaxTime, end \in now..MaxTime :
          \E at \in [DOMAIN connections -> now..end] : PoolCleanupIdle(timeout, at, end)

(***************************************************************************)
(* The connection balancer, called from several threads.                   *)
(***************************************************************************)
\* a next_worker that advances one worker every two calls
BalancerIndex_Halved(idx, count) == (idx \div 2) % count

\* ConnectionBalancer::next_worker, after the fetch_add: idx % worker_count
\* (the usize counter wraps at 2^64, out of reach of MaxPicks)
BalancerIndex(idx, count) == idx % count

NotPicking == [pc |-> "idle", idx |-> 0]

BalInit ==
    /\ bcount = 0
    /\ bcur = 0
    /\ picking = [t \in Threads |-> NotPicking]
    /\ picked = <<>>

\* ConnectionBalancer::new(count): count > 0 is asserted
BalancerNew(count) ==
    /\ bcount = 0
    /\ count > 0
    /\ bcount' = count
    /\ UNCHANGED <<bcur, picking, picked, balRest>>

\* next_worker, first half: current.fetch_add(1, Relaxed)
NextWorkerFetch(t) ==
    /\ bcount > 0
    /\ picking[t].pc = "idle"
    /\ bcur < MaxPicks
    /\ LET r == fetch_add(bcur, 1)
       IN  /\ bcur' = r.new
           /\ picking' = [picking EXCEPT ![t] = [pc |-> "mod", idx |-> r.old]]
    /\ UNCHANGED <<bcount, picked, balRest>>

\* next_worker, second half: the index is returned
NextWorkerReturn(t) ==
    /\ picking[t].pc = "mod"
    /\ picked' = Append(picked, BalancerIndex(picking[t].idx, bcount))
    /\ picking' = [picking EXCEPT ![t] = NotPicking]
    /\ UNCHANGED <<bcount, bcur, balRest>>

BalancerNext ==
    \/ \E count \in 1..MaxWorkers : BalancerNew(count)
    \/ \E t \in Threads : NextWorkerFetch(t)
    \/ \E t \in Threads : NextWorkerReturn(t)

(***************************************************************************)
(* The acceptor and the worker tasks. Acceptor::run accepts a socket, picks *)
(* a worker round robin and sends the NewConnection record on the worker's  *)
(* bounded mailbox; a worker task receives a record, handles the connection *)
(* to its end, and receives the next. What happens on the connection is     *)
(* left out here: its handling ends, or panics.                             *)
(***************************************************************************)
\* ServerConfig.worker_threads, the worker count TcpReactor::run starts
worker_threads == 2

\* ReactorConfig.reactor_buffer_size, the capacity of each worker mailbox
reactor_buffer_size == 1

\* ServerConfig.max_connections
max_connections == 2

AccWorkers == 0..(worker_threads - 1)
Sockets == 1..MaxAccepts

\* the acceptor has returned: the worker_txs are dropped with it
SendersClosed == acc \in {"accept_failed", "send_failed"}

\* the worker task is gone without leaving its loop: its receiver is dropped
ReceiverGone(w) == wk[w].pc = "panicked"

\* Sender::send on a worker mailbox: fails when the receiver is gone, waits
\* while the mailbox is full
mailbox_send_Unbounded(q, gone) == IF gone THEN "Closed" ELSE "Ok"

mailbox_send(q, gone) ==
    IF gone THEN "Closed"
    ELSE IF Len(q) < reactor_buffer_size THEN "Ok" ELSE "Full"

\* Receiver::recv on a worker mailbox: a queued record if there is one, None
\* once the mailbox is empty and every sender is dropped
rx_recv_ClosedFirst(q, closed) ==
    IF closed THEN "None" ELSE IF q /= <<>> THEN "Some" ELSE "Pending"

rx_recv(q, closed) ==
    IF q /= <<>> THEN "Some" ELSE IF closed THEN "None" ELSE "Pending"

\* the worker the socket accepted last goes to
SendTarget == BalancerIndex(accepted - 1, worker_threads)

\* TcpReactor::run: acceptor.run().await? returns the acceptor's error
TcpReactor_run_Swallow == "Running"

TcpReactor_run == IF SendersClosed THEN "Err" ELSE "Running"

AccInit ==
    /\ accepted = 0
    /\ acc = "accept"
    /\ mbox = [w \in AccWorkers |-> <<>>]
    /\ wk = [w \in AccWorkers |-> [pc |-> "recv", conn |-> 0]]
    /\ cst = [c \in Sockets |-> "none"]
    /\ handoff = <<>>

\* listener.accept() returns a socket; next_worker() picks its worker
AcceptorAccept ==
    /\ acc = "accept"
    /\ accepted < MaxAccepts
    /\ accepted' = accepted + 1
    /\ acc' = "send"
    /\ cst' = [cst EXCEPT ![accepted + 1] = "held"]
    /\ UNCHANGED <<mbox, wk, handoff, accRest>>

\* listener.accept() returns an error: Acceptor::run returns it
AcceptorAcceptErr ==
    /\ acc = "accept"
    /\ acc' = "accept_failed"
    /\ UNCHANGED <<accepted, mbox, wk, cst, handoff, accRest>>

\* worker_txs[worker_id].send(NewConnection).await
AcceptorSend ==
    /\ acc = "send"
    /\ LET w == SendTarget
           r == mailbox_send(mbox[w], ReceiverGone(w))
       IN  /\ r /= "Full"
           /\ IF r = "Ok"
              THEN /\ mbox' = [mbox EXCEPT ![w] = Append(@, accepted)]
                   /\ handoff' = Append(handoff, [conn |-> accepted, worker |-> w])
                   /\ cst' = [cst EXCEPT ![accepted] = "queued"]
                   /\ acc' = "accept"
              ELSE /\ acc' = "send_failed"
                   /\ cst' = [cst EXCEPT ![accepted] = "dropped"]
                   /\ UNCHANGED <<mbox, handoff>>
    /\ UNCHANGED <<accepted, wk, accRest>>

\* rx.recv().await yields a record: the worker handles the connection
WorkerTakes(w) ==
    /\ wk[w].pc = "recv"
    /\ rx_recv(mbox[w], SendersClosed) = "Some"
    /\ wk' = [wk EXCEPT ![w] = [pc |-> "serving", conn |-> Head(mbox[w])]]
    /\ mbox' = [mbox EXCEPT ![w] = Tail(@)]
    /\ cst' = [cst EXCEPT ![Head(mbox[w])] = "serving"]
    /\ UNCHANGED <<accepted, acc, handoff, accRest>>

\* handle_connection returns, Ok or Err: the worker is back at rx.recv()
WorkerConnEnds(w) ==
    /\ wk[w].pc = "serving"
    /\ wk' = [wk EXCEPT ![w] = [pc |-> "recv", conn |-> 0]]
    /\ cst' = [cst EXCEPT ![wk[w].conn] = "ended"]
    /\ UNCHANGED <<accepted, acc, mbox, handoff, accRest>>

\* a panic while the connection is handled unwinds the worker task: the
\* receiver is dropped, and the records still queued with it
WorkerUnwinds(w) ==
    /\ wk[w].pc = "serving"
    /\ wk' = [wk EXCEPT ![w] = [pc |-> "panicked", conn |-> 0]]
    /\ mbox' = [mbox EXCEPT ![w] = <<>>]
    /\ cst' = [c \in Sockets |->
                 IF c = wk[w].conn \/ \E i \in 1..Len(mbox[w]) : mbox[w][i] = c
                 THEN "dropped" ELSE cst[c]]
    /\ UNCHANGED <<accepted, acc, handoff, accRest>>

\* rx.recv().await yields None: the loop breaks and the task returns Ok
WorkerExit(w) ==
    /\ wk[w].pc = "recv"
    /\ rx_recv(mbox[w], SendersClosed) = "None"
    /\ wk' = [wk EXCEPT ![w] = [pc |-> "exited", conn |-> 0]]
    /\ UNCHANGED <<accepted, acc, mbox, cst, handoff, accRest>>

AcceptorNext ==
    \/ AcceptorAccept
    \/ AcceptorAcceptErr
    \/ AcceptorSend
    \/ \E w \in AccWorkers : WorkerTakes(w)
    \/ \E w \in AccWorkers : WorkerConnEnds(w)
    \/ \E w \in AccWorkers : WorkerUnwinds(w)
    \/ \E w \in AccWorkers : WorkerExit(w)

(***************************************************************************)
(* The response channel of one connection. The reader loop hands each      *)
(* Context a clone of the sender; the handler sends through it, and may    *)
(* pass a clone of its Context to a task that outlives it. The writer task *)
(* owns the receiver.                                                      *)
(***************************************************************************)
\* the writer task is gone and the receiver with it
RxDropped == wtr \in {"exited", "failed"}

\* response_tx, the clone in the Context being handled, or the clone given
\* away is alive
TxAlive == rdr /= "exited" \/ det.pc \in {"idle", "sending"}

\* Sender::send on the response channel holding n responses
channel_send_NoBound(n, gone) == IF gone THEN "SendFailed" ELSE "Ok"

channel_send(n, gone) ==
    IF gone THEN "SendFailed"
    ELSE IF n < RESPONSE_CHANNEL_SIZE THEN "Ok" ELSE "Full"

RespInit ==
    /\ rdr = "read"
    /\ det = [pc |-> "none", late |-> FALSE]
    /\ queued = 0
    /\ wtr = "recv"
    /\ lsend = [who |-> "none", late |-> FALSE, res |-> "None"]

\* read_half.next() yields a frame: the router is invoked with a Context
ChanDispatch ==
    /\ rdr = "read"
    /\ rdr' = "handler"
    /\ UNCHANGED <<det, queued, wtr, lsend, respRest>>

\* read_half.next() yields None or an error: the loop ends, response_tx is
\* dropped
ChanReaderExit ==
    /\ rdr = "read"
    /\ rdr' = "exited"
    /\ UNCHANGED <<det, queued, wtr, lsend, respRest>>

\* the handler calls ctx.respond
ChanHandlerRespond ==
    /\ rdr = "handler"
    /\ rdr' = "sending"
    /\ UNCHANGED <<det, queued, wtr, lsend, respRest>>

\* the handler's send returns
ChanHandlerSent ==
    /\ rdr = "sending"
    /\ LET r == channel_send(queued, RxDropped)
       IN  /\ r /= "Full"
           /\ queued' = IF r = "Ok" THEN queued + 1 ELSE queued
           /\ lsend' = [who |-> "handler", late |-> FALSE, res |-> r]
    /\ rdr' = "handler"
    /\ UNCHANGED <<det, wtr, respRest>>

\* the handler moves a clone of its Context into a task of its own
ChanHandlerDetach ==
    /\ rdr = "handler"
    /\ det.pc = "none"
    /\ det' = [pc |-> "idle", late |-> FALSE]
    /\ UNCHANGED <<rdr, queued, wtr, lsend, respRest>>

\* router.handle(ctx) returns
ChanHandlerReturn ==
    /\ rdr = "handler"
    /\ rdr' = "read"
    /\ UNCHANGED <<det, queued, wtr, lsend, respRest>>

\* the task holding the clone calls respond
ChanCloneRespond ==
    /\ det.pc = "idle"
    /\ det' = [pc |-> "sending", late |-> (rdr = "exited")]
    /\ UNCHANGED <<rdr, queued, wtr, lsend, respRest>>

\* the clone's send returns
ChanCloneSent ==
    /\ det.pc = "sending"
    /\ LET r == channel_send(queued, RxDropped)
       IN  /\ r /= "Full"
           /\ queued' = IF r = "Ok" THEN queued + 1 ELSE queued
           /\ lsend' = [who |-> "clone", late |-> det.late, res |-> r]
    /\ det' = [pc |-> "idle", late |-> FALSE]
    /\ UNCHANGED <<rdr, wtr, respRest>>

\* the task holding the clone ends: the clone is dropped
ChanCloneDrop ==
    /\ det.pc = "idle"
    /\ det' = [pc |-> "dropped", late |-> FALSE]
    /\ UNCHANGED <<rdr, queued, wtr, lsend, respRest>>

\* response_rx.recv() yields a response, or None once the channel is empty
\* and no sender is left
ChanWriterRecv ==
    /\ wtr = "recv"
    /\ IF queued > 0
       THEN wtr' = "write" /\ queued' = queued - 1
       ELSE ~TxAlive /\ wtr' = "exited" /\ UNCHANGED queued
    /\ UNCHANGED <<rdr, det, lsend, respRest>>

\* write_half.send(frame) returns Ok
ChanWriterWrote ==
    /\ wtr = "write"
    /\ wtr' = "recv"
    /\ UNCHANGED <<rdr, det, queued, lsend, respRest>>

\* write_half.send(frame) returns an error: the writer task breaks out of
\* its loop, the receiver and the responses in the channel are dropped
ChanWriterFailed ==
    /\ wtr = "write"
    /\ wtr' = "failed"
    /\ queued' = 0
    /\ UNCHANGED <<rdr, det, lsend, respRest>>

ChannelNext ==
    \/ ChanDispatch
    \/ ChanReaderExit
    \/ ChanHandlerRespond
    \/ ChanHandlerSent
    \/ ChanHandlerDetach
    \/ ChanHandlerReturn
    \/ ChanCloneRespond
    \/ ChanCloneSent
    \/ ChanCloneDrop
    \/ ChanWriterRecv
    \/ ChanWriterWrote
    \/ ChanWriterFailed

(***************************************************************************)
(* The sequence ids of a client connection. The counter is an AtomicU64,   *)
(* the frame field a u32: both are kept at their widths, as 16-bit limbs.  *)
(***************************************************************************)
Limb == 2 ^ 16

\* AtomicU64::new(0)
U64Zero == <<0, 0, 0, 0>>

\* the u64 that follows v: fetch_add(1) wraps around at 2^64
u64_succ(v) ==
    IF v[4] < Limb - 1 THEN <<v[1], v[2], v[3], v[4] + 1>>
    ELSE IF v[3] < Limb - 1 THEN <<v[1], v[2], v[3] + 1, 0>>
    ELSE IF v[2] < Limb - 1 THEN <<v[1], v[2] + 1, 0, 0>>
    ELSE IF v[1] < Limb - 1 THEN <<v[1] + 1, 0, 0, 0>>
    ELSE U64Zero

\* `as u32` on a u64: the low 32 bits
as_u32(v) == <<v[3], v[4]>>

\* a <= b on u32 values
U32Leq(a, b) == a[1] < b[1] \/ (a[1] = b[1] /\ a[2] <= b[2])

\* the counter values the observed calls start from: those with a carry, or
\* none, within reach
SeqStarts ==
    {<<a, b, c, d>> : a \in {0, Limb - 1}, b \in {0, Limb - 1},
                       c \in {0, Limb - 1},
                       d \in {1, Limb - MaxSeqCalls, Limb - 2, Limb - 1}}

SeqInit ==
    /\ seqctr = U64Zero
    /\ seqsent = <<>>

\* the calls made on the connection before the ones observed: each added one
\* to the counter
SendMessageEarlier(v) ==
    /\ seqctr = U64Zero
    /\ seqsent = <<>>
    /\ seqctr' = v
    /\ UNCHANGED <<seqsent, seqRest>>

\* ClientConnection::send_message: the frame gets fetch_add(1) as u32
SendMessage ==
    /\ Len(seqsent) < MaxSeqCalls
    /\ seqsent' = Append(seqsent, as_u32(seqctr))
    /\ seqctr' = u64_succ(seqctr)
    /\ UNCHANGED seqRest

SeqNext ==
    \/ \E v \in SeqStarts : SendMessageEarlier(v)
    \/ SendMessage

(***************************************************************************)
(* The plugin registry: plugins are added with the names they depend on,   *)
(* and initialization_order walks the dependency graph depth first.        *)
(***************************************************************************)
PluginNames == 1..MaxPlugins

\* the elements of a set in ascending order
RECURSIVE Ascending(_)
Ascending(S) ==
    IF S = {} THEN <<>>
    ELSE LET m == CHOOSE x \in S : \A y \in S : x <= y
         IN  <<m>> \o Ascending(S \ {m})

\* the dependency lists a plugin may declare
DepLists == {Ascending(S) : S \in {T \in SUBSET PluginNames : Cardinality(T) <= MaxDeps}}

\* the orders in which HashMap::keys() may yield the keys
KeyOrders(S) ==
    {k \in [1..Cardinality(S) -> S] : \A i, j \in 1..Cardinality(S) : k[i] = k[j] => i = j}

\* a registry that looks no dependency up
dependencies_of_None(g, name) == <<>>

\* self.dependency_graph.get(plugin_name)
dependencies_of(g, name) == g[name]

\* PluginRegistry::visit. st is the walk so far: order, visited, and the
\* result; room counts the calls below this one the stack can still
\* take: a walk deeper than the number of names is on a cycle and never
\* returns
RECURSIVE visit(_, _, _, _), visit_each(_, _, _, _)
visit(g, name, st, room) ==
    IF st.res /= "Ok" THEN st
    ELSE IF name \in st.visited THEN st
    ELSE IF \E i \in 1..Len(st.order) : st.order[i] = name
    THEN [st EXCEPT !.res = "Err"]
    ELSE IF room = 0 THEN [st EXCEPT !.res = "StackOverflow"]
    ELSE LET after == visit_each(g, dependencies_of(g, name), st, room - 1)
         IN  IF after.res /= "Ok" THEN after
             ELSE [res |-> "Ok",
                   order |-> Append(after.order, name),
                   visited |-> after.visited \cup {name}]

visit_each(g, names, st, room) ==
    IF names = <<>> THEN st
    ELSE visit_each(g, Tail(names), visit(g, Head(names), st, room), room)

\* PluginRegistry::initialization_order, the keys coming in the order keys
initialization_order(g, keys) ==
    visit_each(g, keys, [res |-> "Ok", order |-> <<>>, visited |-> {}],
               MaxPlugins + 1)

NoOrder == [res |-> "None", order |-> <<>>, visited |-> {}]

PlugInit ==
    /\ plugin_names = {}
    /\ dependency_graph = [n \in PluginNames |-> <<>>]
    /\ pord = NoOrder

\* PluginRegistry::add of a plugin not yet registered
PluginAdd(name, deps) ==
    /\ pord = NoOrder
    /\ name \notin plugin_names
    /\ plugin_names' = plugin_names \cup {name}
    /\ dependency_graph' = [dependency_graph EXCEPT ![name] = deps]
    /\ UNCHANGED <<pord, plugRest>>

\* App::build calls initialization_order on the registry
InitializationOrder(keys) ==
    /\ pord = NoOrder
    /\ plugin_names /= {}
    /\ pord' = initialization_order(dependency_graph, keys)
    /\ UNCHANGED <<plugin_names, dependency_graph, plugRest>>

PluginNext ==
    \/ \E name \in PluginNames, deps \in DepLists : PluginAdd(name, deps)
    \/ \E keys \in KeyOrders(plugin_names) : InitializationOrder(keys)

(***************************************************************************)
(* A Connection record (aerox_core). Its fields are public: the owner      *)
(* assigns the state, and calls update_active when the connection is used. *)
(***************************************************************************)
ConnectionStates == {"Connecting", "Connected", "Disconnecting", "Closed"}

NoRecord == [id |-> 0, state |-> "None", created_at |-> 0, last_active |-> 0]

RecInit == crec = NoRecord

\* Connection::new(id, remote_addr)
RecNew(id) ==
    /\ crec = NoRecord
    /\ crec' = [id |-> id, state |-> "Connected",
                created_at |-> now, last_active |-> now]
    /\ UNCHANGED recRest

\* the owner assigns the state field; a record that is Closed is not given
\* another state
RecSetState(st) ==
    /\ crec.state \in ConnectionStates \ {"Closed"}
    /\ st /= crec.state
    /\ crec' = [crec EXCEPT !.state = st]
    /\ UNCHANGED recRest

\* Connection::update_active
RecUpdateActive ==
    /\ crec.state \in ConnectionStates
    /\ crec' = [crec EXCEPT !.last_active = now]
    /\ UNCHANGED recRest

RecordNext ==
    \/ \E id \in 1..MaxIds : RecNew(id)
    \/ \E st \in ConnectionStates : RecSetState(st)
    \/ RecUpdateActive
    \/ Tick

(***************************************************************************)
(* One ConnectionManager with its metrics, its pool and the cleanup task   *)
(* started by spawn_cleanup_task, which works on a clone of the pool       *)
(* handle.                                                                 *)
(***************************************************************************)
\* ConnectionMetrics::new
BookInit == current_connections = 0

\* ConnectionManager::create_connection: next id, pool.add, inc_connections
ManagerCreate ==
    /\ next_id[1] <= MaxIds
    /\ LET r == fetch_add(next_id[1], 1)
       IN  /\ next_id' = [next_id EXCEPT ![1] = r.new]
           /\ connections' = pool_add(connections, Connection_new(r.old, now))
    /\ current_connections' = current_connections + 1
    /\ UNCHANGED <<creating, issued, now, plast, bookRest>>

\* remove_connection: dec_connections only if the pool held the connection
dec_if_removed(res, n) == IF res = "Some" THEN n - 1 ELSE n

\* ConnectionManager::remove_connection
ManagerRemove(id) ==
    /\ LET r == pool_remove(connections, id)
       IN  /\ connections' = r.connections
           /\ current_connections' = dec_if_removed(r.res, current_connections)
    /\ UNCHANGED <<next_id, creating, issued, now, plast, bookRest>>

\* a run of the cleanup task: pool.cleanup_idle(timeout) on the shared pool;
\* the count it returns is only printed
CleanupTaskRun(timeout) ==
    /\ LET r == cleanup_idle(connections, timeout, [id \in DOMAIN connections |-> now])
       IN  /\ r.count > 0
           /\ connections' = r.connections
    /\ UNCHANGED <<next_id, creating, issued, now, plast, current_connections, bookRest>>

BookNext ==
    \/ ManagerCreate
    \/ \E id \in 1..MaxIds : ManagerRemove(id)
    \/ \E timeout \in 0..MaxTime : CleanupTaskRun(timeout)
    \/ Tick

(***************************************************************************)
(* The client: a ClientConnection, its background sender task, and the     *)
(* HighLevelClient with its background receiver task                       *)
(* (aerox_client/src/connection.rs, aerox_client/src/high_level/client.rs).*)
(***************************************************************************)
\* the frames one behaviour sends, told apart by their number
MaxClientSends == 2
\* the frames the server sends
MaxInbound == 1
\* the capacity of the channel between send_frame and the sender task
send_channel_size == 128

ClientStates ==
    {"Disconnected", "Connecting", "Connected", "Reconnecting", "ShuttingDown"}

\* the connection exists and close() has not consumed it
ClientOpen == sender_task /= "unspawned" /\ send_tx

\* before ClientConnection::connect
ClientInit ==
    /\ client_state = "Connecting"
    /\ high_level = FALSE
    /\ auto_reconnect = FALSE
    /\ send_tx = FALSE
    /\ send_rx = <<>>
    /\ sender_task = "unspawned"
    /\ taken = 0
    /\ on_wire = <<>>
    /\ write_failed = FALSE
    /\ sent_ok = <<>>
    /\ send_res = [res |-> "Unset", lost |-> FALSE]
    /\ inbound = 0
    /\ peer_closed = FALSE
    /\ recv_lost = FALSE
    /\ receiver_task = "unspawned"
    /\ connection_lock = "free"
    /\ disconnected = 0
    /\ query = "idle"
    /\ asked = [connected |-> FALSE, lost |-> FALSE, made |-> FALSE]

\* ClientConnection::connect, and HighLevelClient::connect_with_config around
\* it when hl: the channel is made, the sender task spawned, the state set
\* to Connected, and the receiver task spawned by the high-level client
ClientConnection_connect(hl, reconnect) ==
    /\ sender_task = "unspawned"
    /\ client_state' = "Connected"
    /\ send_tx' = TRUE
    /\ sender_task' = "recv"
    /\ high_level' = hl
    /\ auto_reconnect' = reconnect
    /\ receiver_task' = IF hl THEN "state" ELSE "unspawned"
    /\ UNCHANGED <<send_rx, taken, on_wire, write_failed, sent_ok, send_res, inbound,
                   peer_closed, recv_lost, connection_lock, disconnected, query,
                   asked, cliRest>>

\* ClientConnection::send_frame on a connection its caller holds: the state
\* check, then the send into the channel, which fails when the sender task
\* has dropped the receiver
ClientConnection_send_frame ==
    /\ ClientOpen
    /\ ~high_level
    /\ Len(sent_ok) < MaxClientSends
    /\ Len(send_rx) < send_channel_size
    /\ IF client_state /= "Connected"
       THEN /\ send_res' = [res |-> "NotConnected", lost |-> recv_lost]
            /\ UNCHANGED <<send_rx, sent_ok>>
       ELSE IF sender_task = "ended"
       THEN /\ send_res' = [res |-> "SendFailed", lost |-> recv_lost]
            /\ UNCHANGED <<send_rx, sent_ok>>
       ELSE /\ send_rx' = Append(send_rx, Len(sent_ok) + 1)
            /\ sent_ok' = Append(sent_ok, Len(sent_ok) + 1)
            /\ send_res' = [res |-> "Ok", lost |-> recv_lost]
    /\ UNCHANGED <<client_state, high_level, auto_reconnect, send_tx, sender_task,
                   taken, on_wire, write_failed, inbound, peer_closed, recv_lost,
                   receiver_task, connection_lock, disconnected, query, asked,
                   cliRest>>

\* the sender task at send_rx.recv(): a queued frame, or None once the channel
\* is empty and every Sender dropped
SenderTaskRecv ==
    /\ sender_task = "recv"
    /\ IF send_rx /= <<>>
       THEN /\ taken' = Head(send_rx)
            /\ send_rx' = Tail(send_rx)
            /\ sender_task' = "check"
       ELSE /\ ~send_tx
            /\ sender_task' = "ended"
            /\ UNCHANGED <<taken, send_rx>>
    /\ UNCHANGED <<client_state, high_level, auto_reconnect, send_tx, on_wire,
                   write_failed, sent_ok, send_res, inbound, peer_closed, recv_lost,
                   receiver_task, connection_lock, disconnected, query, asked,
                   cliRest>>

\* the sender task checks the state: it breaks, dropping the frame it holds
\* and those still queued, unless the state is Connected
SenderTaskCheck ==
    /\ sender_task = "check"
    /\ IF client_state /= "Connected"
       THEN /\ sender_task' = "ended"
            /\ taken' = 0
            /\ send_rx' = <<>>
       ELSE /\ sender_task' = "send"
            /\ UNCHANGED <<taken, send_rx>>
    /\ UNCHANGED <<client_state, high_level, auto_reconnect, send_tx, on_wire,
                   write_failed, sent_ok, send_res, inbound, peer_closed, recv_lost,
                   receiver_task, connection_lock, disconnected, query, asked,
                   cliRest>>

\* the sender task writes the frame; the write may fail once the server has
\* closed the socket, and the task breaks
SenderTaskSend(fails) ==
    /\ sender_task = "send"
    /\ fails => peer_closed
    /\ IF fails
       THEN /\ sender_task' = "ended"
            /\ write_failed' = TRUE
            /\ send_rx' = <<>>
            /\ UNCHANGED on_wire
       ELSE /\ on_wire' = Append(on_wire, taken)
            /\ sender_task' = "recv"
            /\ UNCHANGED <<write_failed, send_rx>>
    /\ taken' = 0
    /\ UNCHANGED <<client_state, high_level, auto_reconnect, send_tx, sent_ok,
                   send_res, inbound, peer_closed, recv_lost, receiver_task,
                   connection_lock, disconnected, query, asked, cliRest>>

\* the result of ClientConnection::recv_frame once it returns
recv_frame(state, frames) ==
    IF state /= "Connected" THEN "NotConnected"
    ELSE IF frames > 0 THEN "Ok"
    ELSE "ReceiveFailed"

\* whether recv_frame returns: at once when not connected, otherwise when
\* read_half.next() has a frame or the end of the stream
recv_frame_returns ==
    client_state /= "Connected" \/ inbound > 0 \/ peer_closed

\* ClientConnection::recv_frame called on a connection its caller holds
ClientConnection_recv_frame ==
    /\ ClientOpen
    /\ ~high_level
    /\ recv_frame_returns
    /\ LET res == recv_frame(client_state, inbound)
       IN  /\ inbound' = IF res = "Ok" THEN inbound - 1 ELSE inbound
           /\ recv_lost' = (recv_lost \/ res = "ReceiveFailed")
    /\ UNCHANGED <<client_state, high_level, auto_reconnect, send_tx, send_rx,
                   sender_task, taken, on_wire, write_failed, sent_ok, send_res,
                   peer_closed, receiver_task, connection_lock, disconnected,
                   query, asked, cliRest>>

\* ClientConnection::close: the state becomes ShuttingDown and the Sender is
\* dropped
ClientConnection_close ==
    /\ ClientOpen
    /\ ~high_level
    /\ query = "idle"
    /\ client_state' = "ShuttingDown"
    /\ send_tx' = FALSE
    /\ UNCHANGED <<high_level, auto_reconnect, send_rx, sender_task, taken, on_wire,
                   write_failed, sent_ok, send_res, inbound, peer_closed, recv_lost,
                   receiver_task, connection_lock, disconnected, query, asked,
                   cliRest>>

\* a call of state() or is_connected() begins; on a HighLevelClient it has
\* to lock the connection first
QueryBegins ==
    /\ ClientOpen
    /\ query = "idle"
    /\ query' = "lock"
    /\ UNCHANGED <<client_state, high_level, auto_reconnect, send_tx, send_rx,
                   sender_task, taken, on_wire, write_failed, sent_ok, send_res,
                   inbound, peer_closed, recv_lost, receiver_task,
                   connection_lock, disconnected, asked, cliRest>>

\* the call takes the lock when it is free, reads the state and returns
is_connected ==
    /\ query = "lock"
    /\ high_level => connection_lock = "free"
    /\ asked' = [connected |-> client_state = "Connected", lost |-> recv_lost,
                 made |-> TRUE]
    /\ query' = "idle"
    /\ UNCHANGED <<client_state, high_level, auto_reconnect, send_tx, send_rx,
                   sender_task, taken, on_wire, write_failed, sent_ok, send_res,
                   inbound, peer_closed, recv_lost, receiver_task,
                   connection_lock, disconnected, cliRest>>

\* the receiver task at the top of its loop: it locks the connection, reads
\* the state and unlocks; when not connected it sleeps and starts over with
\* auto_reconnect, and leaves the loop without
ReceiverTaskState ==
    /\ receiver_task = "state"
    /\ connection_lock = "free"
    /\ receiver_task' =
          IF client_state = "Connected" THEN "lock"
          ELSE IF auto_reconnect THEN "state" ELSE "emit"
    /\ UNCHANGED <<client_state, high_level, auto_reconnect, send_tx, send_rx,
                   sender_task, taken, on_wire, write_failed, sent_ok, send_res,
                   inbound, peer_closed, recv_lost, connection_lock, disconnected,
                   query, asked, cliRest>>

\* the receiver task locks the connection and calls recv_frame, keeping the
\* guard while the call is pending
ReceiverTaskLock ==
    /\ receiver_task = "lock"
    /\ connection_lock = "free"
    /\ connection_lock' = "receiver"
    /\ receiver_task' = "recv_frame"
    /\ UNCHANGED <<client_state, high_level, auto_reconnect, send_tx, send_rx,
                   sender_task, taken, on_wire, write_failed, sent_ok, send_res,
                   inbound, peer_closed, recv_lost, disconnected, query, asked,
                   cliRest>>

\* recv_frame returns to the receiver task, which drops the guard: a frame is
\* dispatched; after an error the loop goes on with auto_reconnect and is
\* left without
ReceiverTaskRecv ==
    /\ receiver_task = "recv_frame"
    /\ recv_frame_returns
    /\ LET res == recv_frame(client_state, inbound)
       IN  /\ inbound' = IF res = "Ok" THEN inbound - 1 ELSE inbound
           /\ recv_lost' = (recv_lost \/ res = "ReceiveFailed")
           /\ receiver_task' =
                 IF res = "Ok" \/ auto_reconnect THEN "state" ELSE "emit"
    /\ connection_lock' = "free"
    /\ UNCHANGED <<client_state, high_level, auto_reconnect, send_tx, send_rx,
                   sender_task, taken, on_wire, write_failed, sent_ok, send_res,
                   peer_closed, disconnected, query, asked, cliRest>>

\* after the loop the receiver task emits Disconnected and ends
ReceiverTaskEmit ==
    /\ receiver_task = "emit"
    /\ disconnected' = disconnected + 1
    /\ receiver_task' = "ended"
    /\ UNCHANGED <<client_state, high_level, auto_reconnect, send_tx, send_rx,
                   sender_task, taken, on_wire, write_failed, sent_ok, send_res,
                   inbound, peer_closed, recv_lost, connection_lock, query, asked,
                   cliRest>>

\* the server sends a frame
ServerSendsFrame ==
    /\ sender_task /= "unspawned"
    /\ ~peer_closed
    /\ inbound < MaxInbound
    /\ inbound' = inbound + 1
    /\ UNCHANGED <<client_state, high_level, auto_reconnect, send_tx, send_rx,
                   sender_task, taken, on_wire, write_failed, sent_ok, send_res,
                   peer_closed, recv_lost, receiver_task, connection_lock,
                   disconnected, query, asked, cliRest>>

\* the server closes the socket
ServerCloses ==
    /\ sender_task /= "unspawned"
    /\ ~peer_closed
    /\ peer_closed' = TRUE
    /\ UNCHANGED <<client_state, high_level, auto_reconnect, send_tx, send_rx,
                   sender_task, taken, on_wire, write_failed, sent_ok, send_res,
                   inbound, recv_lost, receiver_task, connection_lock,
                   disconnected, query, asked, cliRest>>

ClientNext ==
    \/ \E hl \in BOOLEAN, reconnect \in BOOLEAN : ClientConnection_connect(hl, reconnect)
    \/ ClientConnection_send_frame
    \/ ClientConnection_recv_frame
    \/ ClientConnection_close
    \/ QueryBegins
    \/ ServerSendsFrame
    \/ ServerCloses
    \/ SenderTaskRecv
    \/ SenderTaskCheck
    \/ \E fails \in BOOLEAN : SenderTaskSend(fails)
    \/ ReceiverTaskState
    \/ ReceiverTaskLock
    \/ ReceiverTaskRecv
    \/ ReceiverTaskEmit
    \/ is_connected


\* every component in its initial state
LibInit ==
    /\ RouterInit /\ MwInit /\ ConnInit /\ BalInit
    /\ AccInit /\ RespInit /\ SeqInit /\ PlugInit /\ RecInit /\ BookInit
    /\ ClientInit

\* the codec alone
CodecSpecInit == CodecInit /\ ReactorInit /\ LibInit
CodecSpec == CodecSpecInit /\ [][CodecNext]_vars

\* the reactor, with the codec on its sockets
ReactorSpecInit == ReactorInit /\ CodecInit /\ LibInit
ReactorSpec == ReactorSpecInit /\ [][ReactorNext]_vars

\* a step of the tasks that serve connection c: its reader loop with the
\* handler it awaits, and its writer task
ServerStep(c) ==
    \/ ReaderStep(c)
    \/ HandlerRespond(c)
    \/ HandlerReturn(c)
    \/ WriterRecv(c)
    \/ WriterSend(c)

\* the runtime runs a task that can run: a worker at rx.recv(), and the
\* tasks of a connection being served. The clients and the acceptor are under
\* no obligation.
ReactorFairness ==
    /\ \A w \in Workers : WF_vars(WorkerRecv(w))
    /\ \A c \in Conns : WF_vars(ServerStep(c))

ReactorFairSpec == ReactorSpecInit /\ [][ReactorNext]_vars /\ ReactorFairness

\* a component exercised on its own starts with every component in its
\* initial state
LibSpecInit == CodecInit /\ ReactorInit /\ LibInit

\* the middleware stack alone
MwSpec == LibSpecInit /\ [][MwNext]_vars

\* the router alone
RouterSpec == LibSpecInit /\ [][RouterNext]_vars

\* the connection managers, their id generators and the pool they share
ManagerSpec == LibSpecInit /\ [][ManagerNext]_vars

\* the connection balancer alone
BalancerSpec == LibSpecInit /\ [][BalancerNext]_vars

\* the connection pool alone
PoolSpec == LibSpecInit /\ [][PoolNext]_vars

\* one connection manager with its metrics and its cleanup task
BookSpec == LibSpecInit /\ [][BookNext]_vars

\* one client connection, its tasks and the server
ClientSpec == LibSpecInit /\ [][ClientNext]_vars

\* the runtime keeps running the sender task and the receiver task, and a
\* call waiting for the lock gets it when it stays free; a write that can
\* succeed is not made to fail for ever
ClientFairness ==
    /\ WF_vars(SenderTaskRecv)
    /\ WF_vars(SenderTaskCheck)
    /\ WF_vars(SenderTaskSend(FALSE))
    /\ WF_vars(ReceiverTaskState)
    /\ WF_vars(ReceiverTaskLock)
    /\ WF_vars(ReceiverTaskRecv)
    /\ WF_vars(ReceiverTaskEmit)
    /\ WF_vars(is_connected)

ClientFairSpec == ClientSpec /\ ClientFairness

\* one Connection record and the clock
RecordSpec == LibSpecInit /\ [][RecordNext]_vars

\* the plugin registry alone
PluginSpec == LibSpecInit /\ [][PluginNext]_vars

\* the sequence ids of one client connection
SeqSpec == LibSpecInit /\ [][SeqNext]_vars

\* one connection's response channel
ChannelSpec == LibSpecInit /\ [][ChannelNext]_vars

\* the acceptor and the worker tasks
AcceptorSpec == LibSpecInit /\ [][AcceptorNext]_vars

\* the runtime runs a worker task that can run, and a connection being
\* handled comes to its end; listener.accept() is under no obligation
AcceptorFairness ==
    \A w \in AccWorkers :
        /\ WF_vars(WorkerTakes(w))
        /\ WF_vars(WorkerExit(w))
        /\ WF_vars(WorkerConnEnds(w) \/ WorkerUnwinds(w))

AcceptorFairSpec == LibSpecInit /\ [][AcceptorNext]_vars /\ AcceptorFairness

(***************************************************************************)
(* Properties of the codec.                                                *)
(***************************************************************************)
Called == lastCall.out.res /= "Unset"

\* C1: codec round trip. Decode applied to a buffer holding exactly the
\* encoding of a frame whose body is at most MAX_BODY_SIZE long yields that
\* frame (same message id, sequence id and body) and empties the buffer, and
\* an encoding is 4 + 6 + body.len bytes long.
C1_RoundTrip ==
    /\ lastEnc.res = "Ok" => lastEnc.added = 4 + 6 + BLen(lastEnc.item.body)
    /\ \A i \in 1..Len(sentF) :
          (/\ Called
           /\ BLen(sentF[i].body) <= MAX_BODY_SIZE
           /\ lastCall.in = Frame_encode(sentF[i]))
              => lastCall.out = DecodeResult("Some", sentF[i], "None", <<>>)

\* a frame with a body of exactly MAX_BODY_SIZE bytes went round
C1_Witness ==
    /\ Len(sentF) = 1
    /\ BLen(sentF[1].body) = MAX_BODY_SIZE
    /\ lastCall.in = Frame_encode(sentF[1])
    /\ lastCall.out.res = "Some"
    /\ lastCall.out.frame = sentF[1]

\* a decode call is the step that counts it
DecodeStep == ncalls' = ncalls + 1

\* C2: partial decode. A decode call on a buffer holding only a proper prefix
\* of a frame's encoding returns Incomplete (None) and leaves the buffer as it
\* was; once the rest has been appended, the next decode call yields the frame.
C2_PartialDecode ==
    [][\A i \in 1..Len(sentF) :
          /\ (DecodeStep /\ IsProperPrefix(buf, Frame_encode(sentF[i])))
                => (lastCall'.out.res = "None" /\ buf' = buf)
          /\ (/\ DecodeStep
              /\ Called
              /\ lastCall.out.res = "None"
              /\ IsProperPrefix(lastCall.in, Frame_encode(sentF[i]))
              /\ buf = Frame_encode(sentF[i]))
                => (/\ lastCall'.out.res = "Some"
                    /\ lastCall'.out.frame = sentF[i]
                    /\ decoded' = Append(decoded, sentF[i]))]_vars

\* a prefix that includes the length field was refused, then the frame came
C2_Witness ==
    /\ ncalls = 2
    /\ Len(sentF) = 1
    /\ decoded = sentF
    /\ lastCall.in = Frame_encode(sentF[1])
    /\ BLen(sentF[1].body) > 0
    /\ early

\* C3: multi-frame streaming. With the concatenated encodings of f1..fn in
\* the buffer before the first call, the k-th decode call returns fk, one
\* frame per call, and the buffer is empty after the n-th call.
C3_MultiFrame ==
    (~early /\ ~raw /\ ncalls > 0)
        => /\ decoded = SubSeq(sentF, 1, Min(ncalls, Len(sentF)))
           /\ ncalls >= Len(sentF) => buf = <<>>

\* two different frames were decoded from one buffer, in order
C3_Witness ==
    /\ ~early
    /\ ~raw
    /\ Len(sentF) = 2
    /\ sentF[1] /= sentF[2]
    /\ ncalls = 2
    /\ decoded = sentF
    /\ buf = <<>>

\* C4: oversize rejection. MessageEncoder::encode of a frame whose body is
\* MAX_BODY_SIZE + 1 long fails with BodyTooLarge and adds nothing; decode on
\* a buffer whose declared length exceeds HEADER_SIZE + MAX_BODY_SIZE fails
\* with FrameTooLarge, whatever is buffered after the length field.
C4_Oversize ==
    /\ (lastEnc.res /= "Unset" /\ BLen(lastEnc.item.body) = MAX_BODY_SIZE + 1)
          => (lastEnc.res = "BodyTooLarge" /\ lastEnc.added = 0)
    /\ (/\ Called
        /\ BLen(lastCall.in) >= 4
        /\ get_u32_le(lastCall.in) > HEADER_SIZE + MAX_BODY_SIZE)
          => (lastCall.out.res = "Err" /\ lastCall.out.err = "FrameTooLarge")

\* both rejections happened: the encoder's, and the decoder's on a header
\* declaring 6 + MAX_BODY_SIZE + 1 with a byte buffered after it
C4_Witness ==
    /\ lastEnc.res = "BodyTooLarge"
    /\ lastCall.out.err = "FrameTooLarge"
    /\ BLen(lastCall.in) = 5
    /\ get_u32_le(lastCall.in) = HEADER_SIZE + MAX_BODY_SIZE + 1

\* C34: decoder consumption for every declared length. A decode call on a
\* buffer whose declared length L is at most HEADER_SIZE + MAX_BODY_SIZE
\* completes, and when it yields a frame the body is L - 6 bytes long and
\* 4 + L bytes of the buffer were consumed.
C34_DecodeEveryLength ==
    (/\ Called
     /\ BLen(lastCall.in) >= 4
     /\ get_u32_le(lastCall.in) <= HEADER_SIZE + MAX_BODY_SIZE)
        => /\ lastCall.out.res /= "Panic"
           /\ lastCall.out.res = "Some" =>
                 /\ BLen(lastCall.out.frame.body) = get_u32_le(lastCall.in) - 6
                 /\ BLen(lastCall.in) - BLen(lastCall.out.buf)
                       = 4 + get_u32_le(lastCall.in)

(***************************************************************************)
(* Properties of the reactor.                                              *)
(***************************************************************************)
\* the frames a client decodes from the bytes it received
RECURSIVE DecodeAll(_)
DecodeAll(b) ==
    LET r == Frame_decode(b)
    IN  IF r.res = "Some" THEN <<r.frame>> \o DecodeAll(r.buf) ELSE <<>>

\* what is left of the bytes after those frames
RECURSIVE Leftover(_)
Leftover(b) ==
    LET r == Frame_decode(b)
    IN  IF r.res = "Some" THEN Leftover(r.buf) ELSE b

\* the frames a client wrote before its first oversize header
RECURSIVE FramesBeforeOversize(_)
FramesBeforeOversize(items) ==
    IF items = <<>> \/ items[1].kind = "oversize" THEN <<>>
    ELSE <<items[1].frame>> \o FramesBeforeOversize(Tail(items))

SentOversize(c) == \E i \in 1..Len(sentW[c]) : sentW[c][i].kind = "oversize"

\* the frames the router was invoked for, in order
Started(c) ==
    LET starts == SelectSeq(log[c], LAMBDA e : e.ev = "start")
    IN  [i \in 1..Len(starts) |-> starts[i].frame]

\* the pairs the ping handler sends for these frames
RECURSIVE PongsFor(_)
PongsFor(frames) ==
    IF frames = <<>> THEN <<>>
    ELSE (IF frames[1].message_id = MSG_ID_PING
          THEN << <<MSG_ID_PONG, frames[1].body>> >> ELSE <<>>)
         \o PongsFor(Tail(frames))

Received(c) == DecodeAll(out[c])

PairsOf(frames) == [i \in 1..Len(frames) |-> <<frames[i].message_id, frames[i].body>>]

InHand(c) == IF wpc[c] = "send" THEN <<wcur[c]>> ELSE <<>>

\* the socket is closed: the server holds neither half
Closed(c) == rpc[c] = "exited" /\ wpc[c] = "exited"

\* nothing is left to do for the connection: reader waiting for bytes,
\* channel empty, writer waiting for a pair
Quiet(c) ==
    /\ rpc[c] = "read"
    /\ wire[c] = <<>>
    /\ rbuf[c] = <<>>
    /\ chan[c] = <<>>
    /\ wpc[c] = "recv"

\* C5: per-connection wire order. The router invocations of a connection
\* come one after the other (each has returned before the next starts), for
\* the frames in the order the client wrote them.
C5_WireOrder ==
    \A c \in Conns :
        /\ \A i \in 1..Len(log[c]) :
              IF i % 2 = 1
              THEN log[c][i].ev = "start"
              ELSE log[c][i].ev = "ret" /\ log[c][i].frame = log[c][i - 1].frame
        /\ IsPrefix(Started(c), FramesBeforeOversize(sentW[c]))

\* two different frames of one connection were handled, in wire order
C5_Witness ==
    \E c \in Conns :
        /\ Len(log[c]) = 4
        /\ Started(c) = <<PingH, PingI>>

\* C6: per-connection response order. While writes succeed, the frames on
\* the wire, the pair being written and the pairs queued are, in this order,
\* the pairs whose sends completed: each once, none lost, none reordered.
C6_ResponseOrder ==
    \A c \in Conns :
        /\ Leftover(out[c]) = <<>>
        /\ IF werr[c]
           THEN IsPrefix(PairsOf(Received(c)), enq[c])
           ELSE PairsOf(Received(c)) \o InHand(c) \o chan[c] = enq[c]

\* two different responses were queued together and reached the wire
C6_Witness ==
    \E c \in Conns :
        /\ Len(enq[c]) = 2
        /\ enq[c][1] /= enq[c][2]
        /\ PairsOf(Received(c)) = enq[c]

\* C7: a worker drives its connections cooperatively. A connection handed
\* to a worker whose next frame is complete on the socket can take a step
\* (its reader decodes, or the worker picks connections up), whatever the
\* other connections of the worker do.
HasFrame(c) == Frame_decode(BCat(rbuf[c], wire[c])).res = "Some"

C7_Cooperative ==
    \A c \in Conns :
        (c <= nacc /\ rpc[c] \in {"idle", "read"} /\ HasFrame(c))
            => \/ ENABLED ReaderStep(c)
               \/ \E w \in Workers : ENABLED WorkerRecv(w)

\* C8: per-frame errors do not close the connection. After the router
\* returned an error (no route, or a handler error) the connection is still
\* open, the frames after it are dispatched, and a frame that missed or
\* failed adds no response.
RouterFailed(c) == \E i \in 1..Len(log[c]) : log[c][i].res \notin {"None", "Ok"}

C8_FrameErrors ==
    \A c \in Conns :
        /\ (RouterFailed(c) /\ peer[c] = "open" /\ ~SentOversize(c))
              => (rpc[c] /= "exited" /\ wpc[c] /= "exited")
        /\ (RouterFailed(c) /\ Quiet(c))
              => Started(c) = FramesBeforeOversize(sentW[c])
        /\ IsPrefix(enq[c], PongsFor(Started(c)))

\* after a route miss and a handler error, a ping was answered
C8_Witness ==
    \E c \in Conns :
        /\ Started(c) = <<UnknownF, SlowF, PingH>>
        /\ Received(c) = <<Frame(MSG_ID_PONG, 0, PingH.body)>>
        /\ rpc[c] = "read"

\* C9: an oversize header closes the connection. Once a client has written
\* a header declaring 6 + (MAX_BODY_SIZE + 1) bytes, the server eventually
\* lets go of both halves of the socket, and no frame written after the
\* header is dispatched.
C9_OversizeCloses ==
    \A c \in Conns :
        SentOversize(c)
            ~> (Closed(c) /\ IsPrefix(Started(c), FramesBeforeOversize(sentW[c])))

\* the same for a connection whose reader loop has been entered
ServedOversizeCloses ==
    \A c \in Conns :
        (SentOversize(c) /\ rpc[c] /= "idle")
            ~> (Closed(c) /\ IsPrefix(Started(c), FramesBeforeOversize(sentW[c])))

\* a header followed by a ping on a served connection: the socket closed
\* with nothing handled
OversizeClosed ==
    \E c \in Conns :
        /\ sentW[c] = <<OversizeItem, FrameItem(PingH)>>
        /\ Closed(c)
        /\ log[c] = <<>>
        /\ peer[c] = "open"

\* C10: echo round trip. What the client receives is, per ping handled, one
\* frame (MSG_ID_PONG, sequence_id 0, the ping's body), whatever the ping's
\* sequence id; all of them once the connection is quiet; and the connection
\* stays open.
PongFrames(frames) ==
    LET pairs == PongsFor(frames)
    IN  [i \in 1..Len(pairs) |-> Frame(pairs[i][1], 0, pairs[i][2])]

C10_Echo ==
    \A c \in Conns :
        /\ IsPrefix(Received(c), PongFrames(Started(c)))
        /\ Quiet(c) => Received(c) = PongFrames(Started(c))
        /\ (rpc[c] /= "idle" /\ peer[c] = "open" /\ ~SentOversize(c))
              => (rpc[c] /= "exited" /\ wpc[c] /= "exited")

\* the ping (1001, seq 42, "h") was answered by (1002, seq 0, "h")
C10_Witness ==
    \E c \in Conns :
        /\ sentW[c] = <<FrameItem(PingH)>>
        /\ PingH.sequence_id = 42
        /\ Received(c) = <<Frame(MSG_ID_PONG, 0, PingH.body)>>
        /\ Quiet(c)

\* C11: connection isolation. The bodies a client receives are the bodies
\* of the pings it wrote itself, in the order it wrote them; a response to a
\* frame of one connection is never written to another connection's socket.
Bodies(frames) == [i \in 1..Len(frames) |-> frames[i].body]

C11_Isolation ==
    \A c \in Conns :
        IsPrefix(Bodies(Received(c)),
                 Bodies(PongFrames(FramesBeforeOversize(sentW[c]))))

\* two clients with different bodies: each got its own body back
C11_Witness ==
    /\ sentW[1] = <<FrameItem(PingH)>>
    /\ sentW[2] = <<FrameItem(PingI)>>
    /\ Bodies(Received(1)) = <<PingH.body>>
    /\ Bodies(Received(2)) = <<PingI.body>>

(***************************************************************************)
(* Properties of the router.                                               *)
(***************************************************************************)
\* C14: router registration. An add_route for an id that has a route
\* returns RouteExists and leaves the table as it was: same route count, and
\* a dispatch for the id still invokes the first handler.
C14_DuplicateRoute ==
    (rlast.op = "add_route" /\ rlast.m \in DOMAIN rlast.before)
        => /\ rlast.res = "RouteExists"
           /\ routes = rlast.before
           /\ route_count(routes) = route_count(rlast.before)
           /\ Router_handle(routes, rlast.m).invoked = <<rlast.before[rlast.m]>>

\* test_duplicate_route: echo_handler was offered for the id of test_handler
C14_Witness ==
    /\ rlast.op = "add_route"
    /\ rlast.m = 100
    /\ rlast.h = "echo_handler"
    /\ rlast.res = "RouteExists"
    /\ routes[100] = "test_handler"

\* C15: router dispatch. handle returns RouteNotFound and invokes nothing
\* when the id has no route; otherwise it invokes the handler registered for
\* the id, once, and returns what the handler returned.
C15_Dispatch ==
    rlast.op = "handle"
        => IF rlast.m \in DOMAIN routes
           THEN /\ rlast.invoked = <<routes[rlast.m]>>
                /\ rlast.res = HandlerOutcome(routes[rlast.m])
           ELSE /\ rlast.invoked = <<>>
                /\ rlast.res = "RouteNotFound"

\* test_handle_unknown_route, with other routes registered: a miss
C15_Witness ==
    /\ rlast.op = "handle"
    /\ rlast.m = 999
    /\ rlast.res = "RouteNotFound"
    /\ DOMAIN routes = {100, 200}
    /\ routes[200] = "failing_handler"

(***************************************************************************)
(* Properties of the middleware stack.                                     *)
(***************************************************************************)
Reverse(q) == [i \in 1..Len(q) |-> q[Len(q) + 1 - i]]

LayersOf(events, e) ==
    LET sel == SelectSeq(events, LAMBDA x : x.ev = e)
    IN  [i \in 1..Len(sel) |-> sel[i].layer]

EnterIds == LayersOf(mwlog, "enter")
ExitIds == LayersOf(mwlog, "exit")

\* C12: middleware onion order. Layers are entered in push order, the
\* handler last, and left in the reverse order; under a middleware that
\* returns without calling next.run nothing is entered (the handler never
\* runs), and the middlewares around it get its result.
C12_OnionOrder ==
    /\ IsPrefix(EnterIds, [i \in 1..Len(stack) |-> i] \o <<0>>)
    /\ ~cancelled =>
          ExitIds = Reverse(SubSeq(EnterIds, Len(EnterIds) - Len(ExitIds) + 1,
                                   Len(EnterIds)))
    /\ \A j \in 1..Len(stack) :
          stack[j] = "short" =>
              /\ \A i \in 1..Len(EnterIds) : EnterIds[i] \in 1..j
              /\ \A i \in 1..Len(mwlog) :
                    mwlog[i].ev = "exit" => mwlog[i].res = "Rejected"

\* the stack [A, B] around H: entered A, B, H and left H, B, A
C12_Witness ==
    /\ stack = <<"pass", "pass">>
    /\ mwpc = "done"
    /\ EnterIds = <<1, 2, 0>>
    /\ ExitIds = <<0, 2, 1>>

\* B returned without calling next.run: H never ran, A got B's result
ShortCircuited ==
    /\ stack = <<"pass", "short">>
    /\ mwpc = "done"
    /\ mwlog = <<MwEvent("enter", 1, "None"), MwEvent("enter", 2, "None"),
                 MwEvent("exit", 2, "Rejected"), MwEvent("exit", 1, "Rejected")>>

\* C13: timeout short-circuit. A timeout returns the Timeout error only
\* while the handler is suspended with the deadline passed; the handler then
\* takes no further step; after a deadline the handler runs at most to its
\* next suspension point; and a handler that completes has its own result
\* returned through every layer.
HandlerRan(e) == e.layer = 0 /\ e.ev \in {"enter", "step"}

FirstIndex(events, P(_)) ==
    IF \E i \in 1..Len(events) : P(events[i])
    THEN CHOOSE i \in 1..Len(events) :
             P(events[i]) /\ \A k \in 1..(i - 1) : ~P(events[k])
    ELSE Len(events) + 1

CompletedAfterDeadline ==
    /\ stack = <<"timeout">>
    /\ mwpc = "done"
    /\ ret = "HandlerError"
    /\ \E i \in 1..Len(mwlog) : mwlog[i].ev = "deadline"

(***************************************************************************)
(* Properties of the connection manager and of the pool.                   *)
(***************************************************************************)
\* the values generator h returned, in the order of its fetch_adds
IssuedBy(h) ==
    LET mine == SelectSeq(issued, LAMBDA e : e.gen = h)
    IN  [i \in 1..Len(mine) |-> mine[i].id]

\* C16: id monotonicity. On each ConnectionIdGenerator the first next()
\* returns 1, successive calls return strictly increasing values, and no
\* value is returned twice, whatever the interleaving of the calling threads.
C16_IdMonotonic ==
    \A h \in 1..Len(next_id) :
        LET ids == IssuedBy(h)
        IN  /\ Len(ids) > 0 => ids[1] = 1
            /\ \A i \in 1..(Len(ids) - 1) : ids[i] < ids[i + 1]
            /\ \A i, j \in 1..Len(ids) : i /= j => ids[i] /= ids[j]

\* two threads are inside create_connection on the same manager at once,
\* thread 2 having drawn its id first
C16_Witness ==
    /\ creating[1].pc = "add" /\ creating[2].pc = "add"
    /\ creating[1].mgr = 1 /\ creating[2].mgr = 1
    /\ creating[2].conn.id = 1
    /\ creating[1].conn.id = 2

\* C17: connection ids are unique. No two connections are assigned equal
\* ids, whichever ConnectionManager handle (the original or a clone sharing
\* its pool) created them.
C17_UniqueIds ==
    \A i, j \in 1..Len(issued) : i /= j => issued[i].id /= issued[j].id

\* the original and its clone each created a connection with id 1, and the
\* pool they share holds one entry
CloneReusedId ==
    /\ Len(issued) = 2
    /\ issued[1].gen = 1 /\ issued[2].gen = 2
    /\ issued[1].id = issued[2].id
    /\ plast.n = 2
    /\ Cardinality(DOMAIN connections) = 1

\* the step is a call of operation o on the pool
PoolStep(o) == plast'.n = plast.n + 1 /\ plast'.op = o

\* C18: pool removal idempotence. remove(id) on an absent id returns
\* Ok(None) and leaves the pool unchanged; after any remove(id),
\* contains(id) is false; and a remove(id) that follows a remove(id) returns
\* Ok(None).
C18_RemoveIdempotent ==
    [][\A id \in 1..MaxIds :
          (PoolStep("remove") /\ plast'.arg = id) =>
              /\ ~pool_contains(connections, id) =>
                    (plast'.res = "None" /\ connections' = connections)
              /\ ~pool_contains(connections', id)
              /\ (plast.op = "remove" /\ plast.arg = id) => plast'.res = "None"]_vars

\* a connection was removed, and removing it again returned None and left
\* the other connection in the pool
C18_Witness ==
    /\ plast.op = "remove"
    /\ plast.res = "None"
    /\ plast.prev.op = "remove"
    /\ plast.prev.arg = plast.arg
    /\ plast.prev.res = "Some"
    /\ DOMAIN connections /= {}

\* the connections a step took out of the pool
Removed == DOMAIN connections \ DOMAIN connections'

\* C19 as stated: after cleanup_idle(D) no remaining connection has an idle
\* time of D or more when the scan completes, every connection idle for less
\* than D is kept, and the count returned is the number of entries removed.
C19_IdleReaper ==
    [][PoolStep("cleanup_idle") =>
          /\ \A id \in DOMAIN connections' :
                idle_time(connections'[id], now') < plast'.arg
          /\ \A id \in DOMAIN connections :
                idle_time(connections[id], now') < plast'.arg
                    => pool_contains(connections', id)
          /\ plast'.res = Cardinality(Removed)]_vars

\* C19, amended: cleanup_idle(D) removes every connection whose idle time
\* was above D when the scan began, keeps (unchanged) every connection whose
\* idle time is at most D when the scan completes, adds nothing, and returns
\* the number of entries removed.
C19_IdleReaperStrict ==
    [][PoolStep("cleanup_idle") =>
          /\ \A id \in DOMAIN connections :
                idle_time(connections[id], now) > plast'.arg
                    => ~pool_contains(connections', id)
          /\ \A id \in DOMAIN connections :
                idle_time(connections[id], now') <= plast'.arg
                    => pool_contains(connections', id)
          /\ \A id \in DOMAIN connections' :
                pool_contains(connections, id) /\ connections'[id] = connections[id]
          /\ plast'.res = Cardinality(Removed)]_vars

\* a scan removed one connection and kept one that had been idle for
\* exactly the timeout
C19_Witness ==
    /\ plast.op = "cleanup_idle"
    /\ plast.arg > 0
    /\ plast.res = 1
    /\ \E id \in DOMAIN connections :
          idle_time(connections[id], now) = plast.arg

(***************************************************************************)
(* Properties of the balancer.                                             *)
(***************************************************************************)
\* how many of the calls that returned got index w
TimesPicked(w) == Cardinality({i \in 1..Len(picked) : picked[i] = w})

\* C20: balancer fairness. Every index returned lies in 0..W-1, and once
\* k*W calls have been made on a fresh balancer with W workers and all have
\* returned, each index has been returned exactly k times, whatever the
\* interleaving of the calling threads.
C20_Fairness ==
    bcount > 0 =>
        /\ \A i \in 1..Len(picked) : picked[i] \in 0..(bcount - 1)
        /\ \A k \in 0..MaxPicks :
              (bcur = k * bcount /\ Len(picked) = bcur) =>
                  \A w \in 0..(bcount - 1) : TimesPicked(w) = k

\* four calls on two workers from two threads, returning out of order: each
\* worker was picked twice
C20_Witness ==
    /\ bcount = 2
    /\ bcur = 4
    /\ picked = <<1, 0, 0, 1>>

\* C29: a write failure is fatal to the connection. Once the writer task of
\* a connection has ended on a write error, the reader loop dispatches no
\* further frame of that connection.
C29_WriteFailureCloses ==
    [][\A c \in Conns : werr[c] => Len(Started(c))' = Len(Started(c))]_vars

\* C30: writer task lifetime. A writer task that ended without a write
\* error ended with every sender dropped and the channel empty, and every
\* response whose send completed is on the wire, in order; and once the
\* reader loop has ended and the senders are dropped, the writer task
\* ends, after writing what was queued unless a write fails.
C30_WriterLifetime ==
    /\ [](\A c \in Conns :
            (wpc[c] = "exited" /\ ~werr[c]) =>
                /\ rpc[c] = "exited"
                /\ chan[c] = <<>>
                /\ PairsOf(Received(c)) = enq[c])
    /\ \A c \in Conns : rpc[c] = "exited" ~> wpc[c] = "exited"

\* the reader loop ended on an oversize header while the client was still
\* reading; the pong sent before is on the wire and the writer task is over
C30_Witness ==
    \E c \in Conns :
        /\ SentOversize(c)
        /\ peer[c] = "open"
        /\ rpc[c] = "exited"
        /\ wpc[c] = "exited"
        /\ ~werr[c]
        /\ enq[c] /= <<>>
        /\ PairsOf(Received(c)) = enq[c]

(***************************************************************************)
(* Properties of the acceptor and the worker tasks.                        *)
(***************************************************************************)
\* the completed sends that delivered socket c
Deliveries(c) == {i \in 1..Len(handoff) : handoff[i].conn = c}

\* the acceptor's send is waiting on a full mailbox of a live worker
SendWaits ==
    /\ acc = "send"
    /\ ~ReceiverGone(SendTarget)
    /\ Len(mbox[SendTarget]) >= reactor_buffer_size

\* C21: acceptor backpressure. A mailbox never holds more than its capacity;
\* while the chosen worker's mailbox is full the send does not complete and
\* no further socket is accepted; every accepted socket is delivered exactly
\* once, to the mailbox of the worker chosen for it, the socket whose send is
\* still under way, or failed on a dead worker, excepted.
C21_Backpressure ==
    /\ [](\A w \in AccWorkers : Len(mbox[w]) <= reactor_buffer_size)
    /\ [](\A c \in 1..accepted :
            \/ /\ Cardinality(Deliveries(c)) = 1
               /\ \A i \in Deliveries(c) :
                     handoff[i].worker = BalancerIndex(c - 1, worker_threads)
            \/ /\ c = accepted
               /\ acc \in {"send", "send_failed"}
               /\ Deliveries(c) = {})
    /\ [][acc = "send" => accepted' = accepted]_vars
    /\ [][SendWaits => (acc' = "send" /\ handoff' = handoff)]_vars

\* the third socket goes to the first worker again, whose mailbox still
\* holds the first socket: the send waits
C21_Witness ==
    /\ SendWaits
    /\ accepted = 3
    /\ mbox[SendTarget] = <<1>>

\* C22: a dead worker mailbox is fatal to the server. A send to a worker
\* whose receiver is gone delivers nothing and makes Acceptor::run return an
\* error; from then on nothing is accepted or delivered, and TcpReactor::run
\* has returned the error.
C22_DeadWorkerFatal ==
    /\ [][(acc = "send" /\ ReceiverGone(SendTarget) /\ acc' /= acc)
            => (acc' = "send_failed" /\ handoff' = handoff)]_vars
    /\ [](acc = "send_failed" => TcpReactor_run = "Err")
    /\ [][acc = "send_failed"
            => (acc' = acc /\ accepted' = accepted /\ handoff' = handoff)]_vars

\* the first worker panicked on the first socket; the third socket, chosen
\* for it, could not be sent
C22_Witness ==
    /\ acc = "send_failed"
    /\ accepted = 3
    /\ wk[0].pc = "panicked"
    /\ cst[3] = "dropped"
    /\ TcpReactor_run = "Err"

\* the worker's task is over
Terminated(w) == wk[w].pc \in {"exited", "panicked"}

\* C23: graceful shutdown. A worker leaves its loop only once the acceptor
\* is dropped, its mailbox is empty and every socket delivered to it has
\* been handled to its end; and once the acceptor is dropped, every worker's
\* task terminates, given that the connections it handles come to an end.
C23_GracefulShutdown ==
    /\ [](\A w \in AccWorkers :
            wk[w].pc = "exited" =>
                /\ SendersClosed
                /\ mbox[w] = <<>>
                /\ \A i \in 1..Len(handoff) :
                      handoff[i].worker = w => cst[handoff[i].conn] = "ended")
    /\ \A w \in AccWorkers : SendersClosed ~> Terminated(w)

\* the acceptor failed on its fourth accept; the first worker handled the
\* first socket and the third, queued behind it, and then left its loop
C23_Witness ==
    /\ acc = "accept_failed"
    /\ accepted = 3
    /\ wk[0].pc = "exited"
    /\ cst[1] = "ended"
    /\ cst[3] = "ended"

\* the sockets handed to a worker and not yet at their end
OpenHanded == {c \in Sockets : cst[c] \in {"queued", "serving"}}

\* C24: the max_connections cap. The sockets handed to the workers and
\* open at the same time never number more than max_connections.
C24_MaxConnections == Cardinality(OpenHanded) <= max_connections

\* C31: an accept-time failure is confined to one connection. Whatever
\* listener.accept() returns, Acceptor::run goes on, to the send of the
\* socket it got or to the next accept.
C31_AcceptErrorConfined ==
    [][acc = "accept" => acc' \in {"accept", "send"}]_vars

\* the acceptor has stopped and every worker task is over
AllJoined == SendersClosed /\ \A w \in AccWorkers : Terminated(w)

\* C32: reactor join. TcpReactor::run has returned only if every worker
\* task has finished.
C32_ReactorJoin == TcpReactor_run /= "Running" => AllJoined

(***************************************************************************)
(* Properties of the response channel.                                     *)
(***************************************************************************)
\* C25: response sender validity. Every send begun after the reader loop
\* of the connection has ended fails with SendFailed.
C25_SendAfterClose == lsend.late => lsend.res = "SendFailed"

\* the handler's send found the channel full, the writer task being alive
SendSuspended ==
    /\ rdr = "sending"
    /\ queued >= RESPONSE_CHANNEL_SIZE
    /\ ~RxDropped

\* C28: response-channel backpressure. The channel never holds more than
\* 128 responses; a handler whose send finds it full stays in that send, so
\* that the reader loop dispatches no further frame, and its send returns
\* only from a channel with room, which takes the response, or from one
\* whose writer task is gone.
C28_ResponseBackpressure ==
    /\ [](queued <= RESPONSE_CHANNEL_SIZE)
    /\ [][SendSuspended => rdr' = "sending"]_vars
    /\ [][(rdr = "sending" /\ rdr' /= "sending") =>
            \/ /\ queued < RESPONSE_CHANNEL_SIZE
               /\ queued' = queued + 1
               /\ lsend'.res = "Ok"
            \/ /\ RxDropped
               /\ lsend'.res = "SendFailed"]_vars

\* the channel holds 128 responses, the writer task is writing one more, and
\* the handler is in its next send
C28_Witness ==
    /\ SendSuspended
    /\ queued = 128
    /\ wtr = "write"

(***************************************************************************)
(* Properties of the client's sequence ids.                                *)
(***************************************************************************)
\* C26: client sequence ids. The sequence ids of the frames built by
\* successive send_message calls on a connection never decrease.
C26_SeqMonotonic ==
    \A i \in 1..Len(seqsent) : \A j \in i..Len(seqsent) :
        U32Leq(seqsent[i], seqsent[j])

(***************************************************************************)
(* Properties of the plugin registry.                                      *)
(***************************************************************************)
\* the names reachable from name along n dependency edges or fewer, n >= 1
RECURSIVE DependsWithin(_, _)
DependsWithin(name, n) ==
    LET direct == {dependency_graph[name][i] : i \in 1..Len(dependency_graph[name])}
    IN  IF n <= 1 THEN direct
        ELSE direct \cup UNION {DependsWithin(d, n - 1) : d \in direct}

\* no registered plugin depends on itself, directly or not
Acyclic == \A p \in plugin_names : p \notin DependsWithin(p, MaxPlugins)

\* every dependency of a registered plugin is registered
DependenciesRegistered ==
    \A p \in plugin_names : DependsWithin(p, 1) \subseteq plugin_names

PositionIn(order, name) == CHOOSE i \in 1..Len(order) : order[i] = name

\* C27: plugin ordering. On an acyclic registry whose dependencies are all
\* registered, initialization_order returns Ok with every registered plugin
\* exactly once and after each of its dependencies, whatever the order in
\* which the names are walked.
C27_PluginOrder ==
    (pord.res /= "None" /\ Acyclic /\ DependenciesRegistered) =>
        /\ pord.res = "Ok"
        /\ Len(pord.order) = Cardinality(plugin_names)
        /\ {pord.order[i] : i \in 1..Len(pord.order)} = plugin_names
        /\ \A p \in plugin_names : \A d \in DependsWithin(p, 1) :
              PositionIn(pord.order, d) < PositionIn(pord.order, p)

\* plugin 3 depends on 2, which depends on 1: the order is 1, 2, 3
C27_Witness ==
    /\ plugin_names = {1, 2, 3}
    /\ dependency_graph = [n \in PluginNames |-> IF n = 1 THEN <<>> ELSE <<n - 1>>]
    /\ pord.res = "Ok"
    /\ pord.order = <<1, 2, 3>>

\* C40: plugin ordering terminates. initialization_order returns for every
\* dependency graph, and returns an error when a registered plugin is on a
\* dependency cycle.
C40_PluginOrderTerminates ==
    pord.res /= "None" =>
        /\ pord.res \in {"Ok", "Err"}
        /\ ~Acyclic => pord.res = "Err"

(***************************************************************************)
(* Properties of a Connection record.                                      *)
(***************************************************************************)
\* C33: Closed is final. Once the state of a Connection record is Closed no
\* step changes any of its fields; update_active leaves last_active as it
\* was.
C33_ClosedIsFinal == [][crec.state = "Closed" => crec' = crec]_vars

(***************************************************************************)
(* Properties of the manager's bookkeeping.                                *)
(***************************************************************************)
\* C35: manager bookkeeping. After any sequence of create_connection,
\* remove_connection and runs of the cleanup task, current_connections is
\* the number of connections in the pool.
C35_Bookkeeping == current_connections = Cardinality(DOMAIN connections)

(***************************************************************************)
(* Properties of the client.                                               *)
(***************************************************************************)
\* the frames written are the first of those send_frame accepted, in order
WrittenInOrder ==
    /\ Len(on_wire) <= Len(sent_ok)
    /\ \A i \in 1..Len(on_wire) : on_wire[i] = sent_ok[i]

\* C36: every frame for which send_frame returned Ok is eventually written
\* to the socket, in send order, also when close() is called right after the
\* send, unless a write to the socket fails
C36_NoLossOnClose ==
    /\ []WrittenInOrder
    /\ \A f \in 1..MaxClientSends :
          (Len(sent_ok) >= f) ~> (write_failed \/ Len(on_wire) >= f)

\* C37: once recv_frame has failed on the socket the server closed, the
\* receiver task of the HighLevelClient eventually stops, having emitted
\* exactly one Disconnected event, whatever auto_reconnect is
C37_ReceiverStops ==
    /\ [](disconnected <= 1)
    /\ (high_level /\ recv_lost)
          ~> (receiver_task = "ended" /\ disconnected = 1)

\* C38: after recv_frame has failed because the server closed the
\* connection the state is no longer Connected: is_connected() returns false
\* and a later send_frame returns NotConnected
C38_StateTracksLoss ==
    /\ recv_lost => client_state /= "Connected"
    /\ (asked.made /\ asked.lost) => ~asked.connected
    /\ send_res.lost => send_res.res = "NotConnected"

\* C39: a call of state() or is_connected() on a HighLevelClient is never
\* kept waiting by the receiver task while that task waits for data from the
\* server
C39_QueriesNotBlocked ==
    ~(/\ query = "lock"
      /\ connection_lock = "receiver"
      /\ receiver_task = "recv_frame"
      /\ ~recv_frame_returns)

====
